---- MODULE Spec2Model ----
(***************************************************************************)
(* Model of multi_tool_agent/agent.py: the launch-data normalisation and   *)
(* date-resolution pipeline of get_spacex_launch and the tools around it.  *)
(*                                                                         *)
(* Python values are tagged records ([k |-> "none"], [k |-> "int", ...],   *)
(* [k |-> "str", ...], [k |-> "dict", ...]).  A string is kept in the form *)
(* its parser sees: an ISO-8601 text as its fields and zone suffix, a      *)
(* string of digits as the number it spells, any other text as its         *)
(* sequence of characters.  A call that can raise returns                  *)
(* [exc |-> <exception class or "none">, val |-> <value>].                 *)
(***************************************************************************)
EXTENDS Integers, Sequences, FiniteSets, TLC

VARIABLES
    pc,                      \* position inside the running tool call
    TOOL_CALL_LOG,           \* agent.py:16
    current_time_utc,        \* agent.py:50
    current_year,            \* agent.py:140
    launches,                \* agent.py:80
    found_spacex_in_next_5,  \* agent.py:82
    launch_data,             \* agent.py:83
    data_freshness_status,   \* agent.py:52
    launch_date_utc_str,     \* agent.py:139
    location_info,           \* agent.py:226
    result,                  \* what get_spacex_launch hands to its caller
    requests,                \* HTTP requests issued, per endpoint
    response,                \* agent.py:76-78: how the next-N request ended
    response_past,           \* agent.py:112-114: how the past request ended
    response_launchpad,      \* agent.py:317-319: how the launchpad request ended
    launch_info,             \* agent.py:451: argument of summarize_delay_potential
    weather_info,            \* agent.py:451: argument of summarize_delay_potential
    launch_date,             \* agent.py:466
    summary_text,            \* agent.py:478
    OPENWEATHER_API_KEY,     \* agent.py:31
    latitude,                \* agent.py:382: argument of get_weather_at_location
    longitude,               \* agent.py:382: argument of get_weather_at_location
    location_name,           \* agent.py:382: argument of get_weather_at_location
    coords_result,           \* agent.py:396
    response_geocoding,      \* agent.py:361-363: how the geocoding request ended
    response_weather         \* agent.py:415-417: how the weather request ended

\* the variables of summarize_delay_potential
summaryVars == << launch_info, weather_info, launch_date, summary_text >>

\* the variables of get_weather_at_location and get_coordinates_from_name
weatherVars == << OPENWEATHER_API_KEY, latitude, longitude, location_name, coords_result,
                 response_geocoding, response_weather >>

\* the variables of get_spacex_launch
launchVars == << current_time_utc, current_year, launches, found_spacex_in_next_5,
                launch_data, data_freshness_status, launch_date_utc_str, location_info,
                response, response_past, response_launchpad >>

vars == << pc, TOOL_CALL_LOG, result, requests, launchVars, summaryVars, weatherVars >>

----------------------------------------------------------------------------
(* Bounds of the model *)

\* longest next-N list whose entries are enumerated freely
MaxLaunches == 2

\* longest past-launches list
MaxPast == 2

\* most date fields one record of the next-N list carries
MaxDateFields == 2

\* most seconds the clock advances between the two readings of one call
MaxClockAdvance == 1

----------------------------------------------------------------------------
(* Python values *)

None_ == [k |-> "none"]

\* the key is not in the dict (differs from null only where .get has a default)
Absent == [k |-> "absent"]

IntVal(n) == [k |-> "int", n |-> n, mag |-> "ok"]

\* an integer whose year is beyond 9999 (fromtimestamp: ValueError), e.g. a
\* timestamp in milliseconds
IntYearRange == [k |-> "int", n |-> 0, mag |-> "year_out_of_range"]

\* an integer beyond the platform time_t (fromtimestamp: OverflowError)
IntOverflow == [k |-> "int", n |-> 0, mag |-> "overflow"]

\* "YYYY-MM-DDTHH:MM:SS" followed by tz: "Z", "+00:00" or "" (no zone)
IsoStr(y, mo, d, h, mi, s, tz) ==
    [k |-> "str", form |-> "iso", y |-> y, mo |-> mo, d |-> d,
     h |-> h, mi |-> mi, s |-> s, tz |-> tz]

\* a string of decimal digits
DigitStr(n) == [k |-> "str", form |-> "digits", n |-> n, mag |-> "ok"]

DigitStrOverflow == [k |-> "str", form |-> "digits", n |-> 0, mag |-> "overflow"]

\* any other text, as its characters
Text(chars) == [k |-> "str", form |-> "text", chars |-> chars]

EmptyStr == Text(<< >>)

\* a name or description whose characters no code looks at
Lit(s) == [k |-> "str", form |-> "lit", s |-> s]

Bool(b) == [k |-> "bool", b |-> b]

\* a JSON object: d is a function from the keys present to their values
Dict(d) == [k |-> "dict", d |-> d]

EmptyDict == Dict([x \in {} |-> None_])

\* a JSON array
List(items) == [k |-> "list", items |-> items]

IsNone(v) == v.k \in {"none", "absent"}

\* Python truthiness of a JSON value
Truthy(v) ==
    CASE v.k \in {"none", "absent"} -> FALSE
      [] v.k = "int" -> ~(v.mag = "ok" /\ v.n = 0)
      [] v.k = "str" -> ~(v.form = "text" /\ v.chars = << >>)
      [] v.k = "dict" -> DOMAIN v.d # {}
      [] v.k = "list" -> v.items # << >>
      [] v.k = "bool" -> v.b
      [] OTHER -> TRUE

\* outcome of a call that may raise
Ret(v) == [exc |-> "none", val |-> v]

Raise(e) == [exc |-> e, val |-> None_]

----------------------------------------------------------------------------
(* datetime: the proleptic Gregorian calendar of Python's datetime *)

IsLeap(y) == (y % 4 = 0) /\ ((y % 100 # 0) \/ (y % 400 = 0))

DaysInMonth(y, mo) ==
    CASE mo \in {1, 3, 5, 7, 8, 10, 12} -> 31
      [] mo \in {4, 6, 9, 11} -> 30
      [] OTHER -> IF IsLeap(y) THEN 29 ELSE 28

\* the check datetime.datetime(...) makes on its arguments
ValidDate(y, mo, d) ==
    /\ y >= 1 /\ y <= 9999
    /\ mo >= 1 /\ mo <= 12
    /\ d >= 1 /\ d <= DaysInMonth(y, mo)

ValidTime(h, mi, s) ==
    /\ h >= 0 /\ h <= 23
    /\ mi >= 0 /\ mi <= 59
    /\ s >= 0 /\ s <= 59

\* a datetime object; tz is "utc" (aware) or "naive"
DT(y, mo, d, h, mi, s, tz) ==
    [k |-> "datetime", y |-> y, mo |-> mo, d |-> d, h |-> h, mi |-> mi,
     s |-> s, tz |-> tz]

\* days since 1970-01-01
DaysFromCivil(y, mo, d) ==
    LET yy == IF mo <= 2 THEN y - 1 ELSE y
        era == yy \div 400
        yoe == yy - era * 400
        mp == IF mo > 2 THEN mo - 3 ELSE mo + 9
        doy == (153 * mp + 2) \div 5 + d - 1
        doe == yoe * 365 + yoe \div 4 - yoe \div 100 + doy
    IN  era * 146097 + doe - 719468

CivilFromDays(z0) ==
    LET z == z0 + 719468
        era == z \div 146097
        doe == z - era * 146097
        yoe == (doe - doe \div 1460 + doe \div 36524 - doe \div 146096) \div 365
        doy == doe - (365 * yoe + yoe \div 4 - yoe \div 100)
        mp == (5 * doy + 2) \div 153
        d == doy - (153 * mp + 2) \div 5 + 1
        mo == IF mp < 10 THEN mp + 3 ELSE mp - 9
        y == yoe + era * 400 + (IF mo <= 2 THEN 1 ELSE 0)
    IN  [y |-> y, mo |-> mo, d |-> d]

\* position of a datetime on the time line: << day, second of the day >>
Instant(dt) == << DaysFromCivil(dt.y, dt.mo, dt.d), dt.h * 3600 + dt.mi * 60 + dt.s >>

InstantLess(a, b) == a[1] < b[1] \/ (a[1] = b[1] /\ a[2] < b[2])

\* a > b on datetimes: comparing a naive with an aware datetime raises TypeError
DatetimeGreater(a, b) ==
    IF a.tz # b.tz THEN Raise("TypeError")
    ELSE Ret(Bool(InstantLess(Instant(b), Instant(a))))

\* datetime.datetime.fromtimestamp(n, tz=utc) for an integer in range
FromTimestamp(n) ==
    LET days == n \div 86400
        rem == n % 86400
        c == CivilFromDays(days)
    IN  DT(c.y, c.mo, c.d, rem \div 3600, (rem % 3600) \div 60, rem % 60, "utc")

\* datetime.datetime.fromisoformat(s.replace('Z', '+00:00')) on a str
FromIsoFormat(v) ==
    IF v.form = "iso" /\ ValidDate(v.y, v.mo, v.d) /\ ValidTime(v.h, v.mi, v.s)
    THEN Ret(DT(v.y, v.mo, v.d, v.h, v.mi, v.s,
                IF v.tz \in {"Z", "+00:00"} THEN "utc" ELSE "naive"))
    ELSE Raise("ValueError")

\* dt.isoformat().replace('+00:00', 'Z')
IsoFormatZ(dt) ==
    IsoStr(dt.y, dt.mo, dt.d, dt.h, dt.mi, dt.s, IF dt.tz = "utc" THEN "Z" ELSE "")

\* int(s) on a str
IntOfStr(v) ==
    IF v.form = "digits" THEN Ret([k |-> "int", n |-> v.n, mag |-> v.mag])
    ELSE Raise("ValueError")

\* fromtimestamp on an int of any size
FromTimestampChecked(v) ==
    CASE v.mag = "ok" -> Ret(FromTimestamp(v.n))
      [] v.mag = "year_out_of_range" -> Raise("ValueError")
      [] OTHER -> Raise("OverflowError")

\* `except <classes>: pass` around a call whose value is then None
Swallow(classes, r) == IF r.exc \in classes THEN Ret(None_) ELSE r

\* lines 61-65: the str that is no ISO text, read as a Unix timestamp
ParseStrTimestamp(n) ==
    IF n.exc # "none" THEN Ret(None_)
    ELSE Swallow({"ValueError", "TypeError"}, FromTimestampChecked(n.val))

\* lines 57-65, iso being what fromisoformat made of the str
ParseStrDate(date_val, iso) ==
    IF iso.exc = "none" THEN iso ELSE ParseStrTimestamp(IntOfStr(date_val))

\* helper of get_spacex_launch, lines 54-72: a datetime, None, or an
\* exception no clause of the helper catches
parse_rll_date(date_val) ==
    IF date_val.k = "str" THEN ParseStrDate(date_val, FromIsoFormat(date_val))
    ELSE IF date_val.k = "int" THEN Swallow({"ValueError"}, FromTimestampChecked(date_val))
    ELSE Ret(None_)

----------------------------------------------------------------------------
(* dict access *)

\* obj.get(key): None when the key is missing; AttributeError off a non-dict
Get(obj, key) ==
    IF obj.k # "dict" THEN Raise("AttributeError")
    ELSE IF key \in DOMAIN obj.d THEN Ret(obj.d[key]) ELSE Ret(None_)

\* obj.get(key, default)
GetDefault(obj, key, default) ==
    IF obj.k # "dict" THEN Raise("AttributeError")
    ELSE IF key \in DOMAIN obj.d THEN Ret(obj.d[key]) ELSE Ret(default)

\* obj.get(key) where obj is known to be a dict
Field(obj, key) == IF key \in DOMAIN obj.d THEN obj.d[key] ELSE None_

\* r.get(key, default) further along a chain of calls: an exception raised
\* earlier in the chain is passed on
ThenGetDefault(r, key, default) ==
    IF r.exc # "none" THEN r ELSE GetDefault(r.val, key, default)

ThenGet(r, key) == IF r.exc # "none" THEN r ELSE Get(r.val, key)

----------------------------------------------------------------------------
(* characters *)

UpperCase == {"A", "B", "C", "D", "E", "F", "G", "H", "I", "J", "K", "L", "M",
              "N", "O", "P", "Q", "R", "S", "T", "U", "V", "W", "X", "Y", "Z"}

LowerCase == {"a", "b", "c", "d", "e", "f", "g", "h", "i", "j", "k", "l", "m",
              "n", "o", "p", "q", "r", "s", "t", "u", "v", "w", "x", "y", "z"}

Digits == {"0", "1", "2", "3", "4", "5", "6", "7", "8", "9"}

IsAlpha(c) == c \in UpperCase \cup LowerCase

IsDigit(c) == c \in Digits

IsSpace(c) == c = " "

\* the regular-expression classes [A-Za-z], \d and \s
InClass(class, c) ==
    CASE class = "alpha" -> IsAlpha(c)
      [] class = "digit" -> IsDigit(c)
      [] OTHER -> IsSpace(c)

ToLower ==
    [c \in UpperCase |->
        CASE c = "A" -> "a" [] c = "B" -> "b" [] c = "C" -> "c" [] c = "D" -> "d"
          [] c = "E" -> "e" [] c = "F" -> "f" [] c = "G" -> "g" [] c = "H" -> "h"
          [] c = "I" -> "i" [] c = "J" -> "j" [] c = "K" -> "k" [] c = "L" -> "l"
          [] c = "M" -> "m" [] c = "N" -> "n" [] c = "O" -> "o" [] c = "P" -> "p"
          [] c = "Q" -> "q" [] c = "R" -> "r" [] c = "S" -> "s" [] c = "T" -> "t"
          [] c = "U" -> "u" [] c = "V" -> "v" [] c = "W" -> "w" [] c = "X" -> "x"
          [] c = "Y" -> "y" [] OTHER -> "z"]

\* str.lower() on the characters of a string
LowerChars(chars) ==
    [i \in 1..Len(chars) |-> IF chars[i] \in UpperCase THEN ToLower[chars[i]] ELSE chars[i]]

DigitValue(c) ==
    CASE c = "0" -> 0 [] c = "1" -> 1 [] c = "2" -> 2 [] c = "3" -> 3 [] c = "4" -> 4
      [] c = "5" -> 5 [] c = "6" -> 6 [] c = "7" -> 7 [] c = "8" -> 8 [] OTHER -> 9

\* v.lower() on a value: AttributeError unless v is a str
Lower(v) ==
    IF v.k # "str" THEN Raise("AttributeError")
    ELSE IF v.form = "text" THEN Ret(Text(LowerChars(v.chars)))
    ELSE Ret(v)

ThenLower(r) == IF r.exc # "none" THEN r ELSE Lower(r.val)

\* r == v further along a chain of calls
ThenEquals(r, v) == IF r.exc # "none" THEN r ELSE Ret(Bool(r.val = v))

spacex == Text(<< "s", "p", "a", "c", "e", "x" >>)

----------------------------------------------------------------------------
(* get_spacex_launch: the scan of the next-N list, agent.py:86-105 *)

\* line 87: l.get("provider", {}).get("name", "").lower() == "spacex"
IsSpaceXEntry(l) ==
    ThenEquals(ThenLower(ThenGetDefault(GetDefault(l, "provider", EmptyDict), "name", EmptyStr)),
               spacex)

\* a or b on two parsed dates: b is not evaluated when a is a datetime
OrParsed(a, b) == IF a.exc # "none" \/ a.val.k = "datetime" THEN a ELSE b

\* lines 93-95:
\* parse_rll_date(win_open) or parse_rll_date(t0) or parse_rll_date(sort_date)
FutureCheckTime(l) ==
    OrParsed(parse_rll_date(Field(l, "win_open")),
             OrParsed(parse_rll_date(Field(l, "t0")),
                      parse_rll_date(Field(l, "sort_date"))))

\* lines 97-103 without the else branch: the status keeps its initial value
\* when the launch is not in the future
FutureOrUnknown(g) ==
    IF g.exc # "none" THEN g
    ELSE Ret(IF g.val.b THEN "future" ELSE "unknown")

\* lines 97-103, g being launch_time_obj > current_time_utc
FutureOrNot(g) ==
    IF g.exc # "none" THEN g
    ELSE Ret(IF g.val.b THEN "future" ELSE "found_but_not_future")

\* lines 97-103, t being launch_time_obj
FreshnessOf(t, now) ==
    IF t.exc # "none" THEN t
    ELSE IF t.val.k # "datetime" THEN Ret("found_but_not_future")
    ELSE FutureOrNot(DatetimeGreater(t.val, now))

\* lines 93-104: the freshness status of the selected entry
ClassifyFreshness(l, now) == FreshnessOf(FutureCheckTime(l), now)

NotFound == [found |-> FALSE, launch_data |-> None_, status |-> "unknown"]

\* lines 88-105: the entry is taken, with the status st
Selected(l, st) ==
    IF st.exc # "none" THEN st
    ELSE Ret([found |-> TRUE, launch_data |-> l, status |-> st.val])

\* the for loop from entry i on: the first SpaceX entry ends it (break)
RECURSIVE ScanFrom(_, _, _)
\* one turn of the loop, m being the test of line 87 on entry i
ScanEntry(items, i, now, m) ==
    IF m.exc # "none" THEN m
    ELSE IF m.val.b THEN Selected(items[i], ClassifyFreshness(items[i], now))
    ELSE ScanFrom(items, i + 1, now)

ScanFrom(items, i, now) ==
    IF i > Len(items) THEN Ret(NotFound)
    ELSE ScanEntry(items, i, now, IsSpaceXEntry(items[i]))

\* the loop without the break of line 105: the last SpaceX entry of the
\* list is the one kept
ScanLaunchesNoBreak(ls, now) ==
    IF ls.k # "list" THEN Raise("TypeError")
    ELSE ScanFrom([i \in 1..Len(ls.items) |-> ls.items[Len(ls.items) + 1 - i]], 1, now)

\* for l in launches: the body's "result" is a list or null here, and
\* iterating None raises TypeError
ScanLaunches(ls, now) ==
    IF ls.k # "list" THEN Raise("TypeError") ELSE ScanFrom(ls.items, 1, now)

----------------------------------------------------------------------------
(* the historical fallback, agent.py:116-125 and 298-305 *)

\* parse_spacex_date_old_api
parse_spacex_date_old_api(date_str) ==
    IF ~Truthy(date_str) THEN Ret(None_)
    ELSE IF date_str.k # "str" THEN Raise("AttributeError")
    ELSE Swallow({"ValueError"}, FromIsoFormat(date_str))

\* datetime.datetime.min.replace(tzinfo=utc)
DatetimeMinUtc == DT(1, 1, 1, 0, 0, 0, "utc")

\* p or datetime.datetime.min.replace(tzinfo=utc)
OrDatetimeMin(p) ==
    IF p.exc # "none" \/ p.val.k = "datetime" THEN p ELSE Ret(DatetimeMinUtc)

\* the sort key of line 120
PastSortKey(x) == OrDatetimeMin(parse_spacex_date_old_api(Field(x, "date_utc")))

\* v == True as Python compares: True itself and the number 1
EqualsTrue(v) == v = Bool(TRUE) \/ (v.k = "int" /\ v.mag = "ok" /\ v.n = 1)

\* the comprehension of line 116 with the test `!= False`: an entry without
\* a success flag is kept
KeepUnlessFailed(x, s, rest) ==
    IF s.exc # "none" THEN s
    ELSE IF rest.exc # "none" THEN rest
    ELSE IF s.val # Bool(FALSE) THEN Ret(<< x >> \o rest.val)
    ELSE rest

\* one turn of the comprehension of line 116: s is x.get("success"), rest
\* what the comprehension makes of the entries after x
KeepIfSuccess(x, s, rest) ==
    IF s.exc # "none" THEN s
    ELSE IF rest.exc # "none" THEN rest
    ELSE IF EqualsTrue(s.val) THEN Ret(<< x >> \o rest.val)
    ELSE rest

\* [l for l in past_launches_data if l.get("success") == True]
RECURSIVE SuccessfulPast(_)
SuccessfulPast(items) ==
    IF items = << >> THEN Ret(<< >>)
    ELSE KeepIfSuccess(Head(items), Get(Head(items), "success"), SuccessfulPast(Tail(items)))

\* list.sort(key=..., reverse=True) followed by [0], on the keys of the
\* entries: a key that raises ends the sort; two or more keys that are not
\* all of one kind cannot be ordered (TypeError); the sort is stable, so of
\* the entries with the greatest key the first in list order comes first
FirstOfSorted(items, keys) ==
    IF \E i \in 1..Len(items) : keys[i].exc # "none"
    THEN keys[CHOOSE i \in 1..Len(items) :
                /\ keys[i].exc # "none"
                /\ \A j \in 1..(i - 1) : keys[j].exc = "none"]
    ELSE IF \E i, j \in 1..Len(items) : keys[i].val.tz # keys[j].val.tz
    THEN Raise("TypeError")
    ELSE Ret(items[CHOOSE i \in 1..Len(items) :
                     /\ \A j \in 1..Len(items) :
                          ~InstantLess(Instant(keys[i].val), Instant(keys[j].val))
                     /\ \A j \in 1..(i - 1) :
                          InstantLess(Instant(keys[j].val), Instant(keys[i].val))])

\* lines 120-121
MostRecentPast(items) ==
    FirstOfSorted(items, [i \in 1..Len(items) |-> PastSortKey(items[i])])

\* lines 118-125, ok being the successful entries: the launch taken, or None
MostRecentOrNone(ok) ==
    IF ok.exc # "none" THEN ok
    ELSE IF ok.val = << >> THEN Ret(None_)
    ELSE MostRecentPast(ok.val)

\* lines 116-125: the launch taken from the past-launches body (a list or
\* null here), or no launch
SelectPast(body) ==
    IF body.k # "list" THEN Raise("TypeError")
    ELSE MostRecentOrNone(SuccessfulPast(body.items))

----------------------------------------------------------------------------
(* text: re.search and datetime.strptime on the characters of a string *)

\* the end (exclusive) of the longest run of characters of one class from i
SpanEnd(s, i, class) ==
    CHOOSE j \in i..(Len(s) + 1) :
        /\ \A t \in i..(j - 1) : InClass(class, s[t])
        /\ (j = Len(s) + 1 \/ ~InClass(class, s[j]))

\* the month names %b and %B match, in the C locale, ignoring case
MonthAbbr == << << "j", "a", "n" >>,
               << "f", "e", "b" >>,
               << "m", "a", "r" >>,
               << "a", "p", "r" >>,
               << "m", "a", "y" >>,
               << "j", "u", "n" >>,
               << "j", "u", "l" >>,
               << "a", "u", "g" >>,
               << "s", "e", "p" >>,
               << "o", "c", "t" >>,
               << "n", "o", "v" >>,
               << "d", "e", "c" >> >>

MonthFull == << << "j", "a", "n", "u", "a", "r", "y" >>,
               << "f", "e", "b", "r", "u", "a", "r", "y" >>,
               << "m", "a", "r", "c", "h" >>,
               << "a", "p", "r", "i", "l" >>,
               << "m", "a", "y" >>,
               << "j", "u", "n", "e" >>,
               << "j", "u", "l", "y" >>,
               << "a", "u", "g", "u", "s", "t" >>,
               << "s", "e", "p", "t", "e", "m", "b", "e", "r" >>,
               << "o", "c", "t", "o", "b", "e", "r" >>,
               << "n", "o", "v", "e", "m", "b", "e", "r" >>,
               << "d", "e", "c", "e", "m", "b", "e", "r" >> >>

\* the number of the month a name spells, 0 when it spells none
MonthNumber(names, chars) ==
    LET low == LowerChars(chars)
        hit == {m \in 1..12 : names[m] = low}
    IN  IF hit = {} THEN 0 ELSE CHOOSE m \in hit : TRUE

\* the number a run of digits spells
RECURSIVE DigitsValue(_)
DigitsValue(chars) ==
    IF chars = << >> THEN 0
    ELSE 10 * DigitsValue(SubSeq(chars, 1, Len(chars) - 1)) + DigitValue(chars[Len(chars)])

DigitChar == << "0", "1", "2", "3", "4", "5", "6", "7", "8", "9" >>

\* str(year) for a year of four digits, as an f-string prints it
YearChars(y) ==
    << DigitChar[((y \div 1000) % 10) + 1], DigitChar[((y \div 100) % 10) + 1],
       DigitChar[((y \div 10) % 10) + 1], DigitChar[(y % 10) + 1] >>

\* datetime.strptime(chars, "<month> %d, %Y").replace(tzinfo=utc), the month
\* directive being %b (names = MonthAbbr) or %B (names = MonthFull): the
\* whole string has to be name, spaces, a day of one or two digits, a comma,
\* spaces, four digits; and the date has to exist
StrpMonthDayYear(names, s) ==
    LET n == Len(s)
        a == SpanEnd(s, 1, "alpha")
        w1 == SpanEnd(s, a, "space")
        d1 == SpanEnd(s, w1, "digit")
        w2 == SpanEnd(s, d1 + 1, "space")
        mo == MonthNumber(names, SubSeq(s, 1, a - 1))
    IN  IF /\ mo # 0
           /\ w1 > a
           /\ d1 - w1 \in {1, 2}
           /\ d1 <= n /\ s[d1] = ","
           /\ w2 > d1 + 1
           /\ w2 + 3 = n
           /\ \A t \in w2..n : IsDigit(s[t])
        THEN LET d == DigitsValue(SubSeq(s, w1, d1 - 1))
                 y == DigitsValue(SubSeq(s, w2, n))
             IN  IF ValidDate(y, mo, d) THEN Ret(DT(y, mo, d, 0, 0, 0, "utc"))
                 ELSE Raise("ValueError")
        ELSE Raise("ValueError")

\* f"{date_part}, {year}"
WithYear(date_part, y) == date_part \o << ",", " " >> \o YearChars(y)

\* re.search(r'([A-Za-z]{3}\s+\d{1,2})', s).group(1): << >> when no match
QuicktextMatch(s) ==
    LET at(i) == /\ i + 4 <= Len(s)
                 /\ IsAlpha(s[i]) /\ IsAlpha(s[i + 1]) /\ IsAlpha(s[i + 2])
                 /\ IsSpace(s[i + 3])
                 /\ LET w == SpanEnd(s, i + 3, "space") IN w <= Len(s) /\ IsDigit(s[w])
        starts == {i \in 1..Len(s) : at(i)}
    IN  IF starts = {} THEN << >>
        ELSE LET i == CHOOSE x \in starts : \A z \in starts : x <= z
                 w == SpanEnd(s, i + 3, "space")
                 e == IF w + 1 <= Len(s) /\ IsDigit(s[w + 1]) THEN w + 1 ELSE w
             IN  SubSeq(s, i, e)

\* re.search(r'(?:on|for)\s+([A-Za-z]+\s+\d{1,2},\s+\d{4})(?:\s*\(UTC\))?', s)
\* .group(1): << >> when no match
DescriptionMatch(s) ==
    LET n == Len(s)
        \* where the group would start when the keyword starts at i, else 0
        after(i) ==
            LET k == IF i + 1 <= n /\ s[i] = "o" /\ s[i + 1] = "n" THEN i + 2
                     ELSE IF i + 2 <= n /\ s[i] = "f" /\ s[i + 1] = "o" /\ s[i + 2] = "r"
                     THEN i + 3 ELSE 0
            IN  IF k = 0 THEN 0
                ELSE LET g == SpanEnd(s, k, "space") IN IF g > k THEN g ELSE 0
        \* the end (inclusive) of the group that starts at g, else 0
        groupEnd(g) ==
            LET a == SpanEnd(s, g, "alpha")
                w1 == SpanEnd(s, a, "space")
                d1 == SpanEnd(s, w1, "digit")
                w2 == SpanEnd(s, d1 + 1, "space")
            IN  IF /\ a > g /\ w1 > a /\ d1 - w1 \in {1, 2}
                   /\ d1 <= n /\ s[d1] = ","
                   /\ w2 > d1 + 1
                   /\ w2 + 3 <= n
                   /\ \A t \in w2..(w2 + 3) : IsDigit(s[t])
                THEN w2 + 3 ELSE 0
        starts == {i \in 1..n : after(i) # 0 /\ groupEnd(after(i)) # 0}
    IN  IF starts = {} THEN << >>
        ELSE LET i == CHOOSE x \in starts : \A z \in starts : x <= z
             IN  SubSeq(s, after(i), groupEnd(after(i)))

\* re.search(r'\d{4}', s) finds a match
HasFourDigits(s) ==
    \E i \in 1..Len(s) : i + 3 <= Len(s) /\ \A t \in i..(i + 3) : IsDigit(s[t])

----------------------------------------------------------------------------
(* get_spacex_launch: the date of the launch, agent.py:139-223 *)

UnknownDate == Lit("Unknown Date")

\* the instant n days before an instant
MinusDays(inst, n) == << inst[1] - n, inst[2] >>

\* launch_date_utc_str after one step: dt is the datetime the step made; an
\* exception of the classes the step catches, or no datetime, leaves the
\* string as prev has it; any other exception leaves the function
IsoOr(prev, dt, caught) ==
    IF dt.exc \in caught THEN prev
    ELSE IF dt.exc # "none" THEN dt
    ELSE IF dt.val.k = "datetime" THEN Ret(IsoFormatZ(dt.val))
    ELSE prev

\* Priority 1, lines 143-146: win_open, else t0, copied as it is
DateFromWindow(ld) ==
    IF Truthy(Field(ld, "win_open")) THEN Field(ld, "win_open")
    ELSE IF Truthy(Field(ld, "t0")) THEN Field(ld, "t0")
    ELSE None_

\* Priority 2, lines 149-152
DateFromSortDate(ld, prev) ==
    IF prev.exc # "none" THEN prev
    ELSE IF ~Truthy(prev.val) /\ Field(ld, "sort_date").k # "none"
    THEN IsoOr(prev, parse_rll_date(Field(ld, "sort_date")), {})
    ELSE prev

\* what converting one argument of datetime.datetime(...) to a C int raises
IntArgError(v) ==
    IF v.k # "int" THEN "TypeError"
    ELSE IF v.mag # "ok" THEN "OverflowError"
    ELSE "none"

\* datetime.datetime(year, month, day, tzinfo=utc) on three JSON values: the
\* arguments are converted in order, then the date is range-checked
MakeDatetime(year, month, day) ==
    LET args == << year, month, day >> IN
    IF \E i \in 1..3 : IntArgError(args[i]) # "none"
    THEN Raise(IntArgError(args[CHOOSE i \in 1..3 :
                                  /\ IntArgError(args[i]) # "none"
                                  /\ \A j \in 1..(i - 1) : IntArgError(args[j]) = "none"]))
    ELSE IF ValidDate(year.n, month.n, day.n)
    THEN Ret(DT(year.n, month.n, day.n, 0, 0, 0, "utc"))
    ELSE Raise("ValueError")

\* lines 157-165 on the three values read from est_date
EstDateToIso(prev, year, month, day) ==
    IF year.exc # "none" THEN year
    ELSE IF Truthy(year.val) /\ Truthy(month.val) /\ Truthy(day.val)
    THEN IsoOr(prev, MakeDatetime(year.val, month.val, day.val), {"TypeError", "ValueError"})
    ELSE prev

\* Priority 3, lines 155-165
DateFromEstDate(ld, year_now, prev) ==
    IF prev.exc # "none" THEN prev
    ELSE IF ~Truthy(prev.val) /\ Truthy(Field(ld, "est_date"))
    THEN EstDateToIso(prev,
                      GetDefault(Field(ld, "est_date"), "year", IntVal(year_now)),
                      Get(Field(ld, "est_date"), "month"),
                      Get(Field(ld, "est_date"), "day"))
    ELSE prev

\* lines 171-177, date_part being what the pattern matched
DescriptionToIso(prev, date_part) ==
    IF date_part = << >> THEN prev
    ELSE IsoOr(prev, StrpMonthDayYear(MonthFull, date_part), {"ValueError"})

\* Priority 4, lines 168-177
DateFromDescription(ld, prev) ==
    IF prev.exc # "none" THEN prev
    ELSE IF ~Truthy(prev.val) /\ Truthy(Field(ld, "launch_description"))
    THEN IF Field(ld, "launch_description").k # "str" THEN Raise("TypeError")
         ELSE DescriptionToIso(prev, DescriptionMatch(Field(ld, "launch_description").chars))
    ELSE prev

\* lines 189-190 and 209-210 with the month test turned around
RollForwardLaterMonths(date_part, now, year_now, dt_obj) ==
    IF dt_obj.exc # "none" THEN dt_obj
    ELSE IF /\ InstantLess(Instant(dt_obj.val), MinusDays(Instant(now), 7))
            /\ dt_obj.val.mo >= now.mo
    THEN StrpMonthDayYear(MonthAbbr, WithYear(date_part, year_now + 1))
    ELSE dt_obj

\* lines 189-190 and 209-210, dt_obj being the date in the current year: it
\* is moved to the next year when it lies more than 7 days back and its
\* month is not after the current month
RollForward(date_part, now, year_now, dt_obj) ==
    IF dt_obj.exc # "none" THEN dt_obj
    ELSE IF /\ InstantLess(Instant(dt_obj.val), MinusDays(Instant(now), 7))
            /\ dt_obj.val.mo <= now.mo
    THEN StrpMonthDayYear(MonthAbbr, WithYear(date_part, year_now + 1))
    ELSE dt_obj

\* lines 187-190 and 207-210: "Mon DD" placed in the current or next year
MonthDayThisOrNextYear(date_part, now, year_now) ==
    RollForward(date_part, now, year_now,
                StrpMonthDayYear(MonthAbbr, WithYear(date_part, year_now)))

\* lines 183-193, date_part being what the pattern matched
QuicktextToIso(prev, date_part, now, year_now) ==
    IF date_part = << >> THEN prev
    ELSE IsoOr(prev, MonthDayThisOrNextYear(date_part, now, year_now), {"ValueError"})

\* Priority 5, lines 180-193
DateFromQuicktext(ld, now, year_now, prev) ==
    IF prev.exc # "none" THEN prev
    ELSE IF ~Truthy(prev.val) /\ Truthy(Field(ld, "quicktext"))
    THEN IF Field(ld, "quicktext").k # "str" THEN Raise("TypeError")
         ELSE QuicktextToIso(prev, QuicktextMatch(Field(ld, "quicktext").chars), now, year_now)
    ELSE prev

\* lines 199-213 on the characters of date_str
DateStrToDatetime(chars, now, year_now) ==
    IF HasFourDigits(chars) THEN StrpMonthDayYear(MonthAbbr, chars)
    ELSE MonthDayThisOrNextYear(chars, now, year_now)

\* Priority 6, lines 196-213
DateFromDateStr(ld, now, year_now, prev) ==
    IF prev.exc # "none" THEN prev
    ELSE IF ~Truthy(prev.val) /\ Truthy(Field(ld, "date_str"))
    THEN IF Field(ld, "date_str").k # "str" THEN Raise("TypeError")
         ELSE IsoOr(prev, DateStrToDatetime(Field(ld, "date_str").chars, now, year_now),
                    {"ValueError"})
    ELSE prev

\* lines 216-221
FinalDateFallback(ld, status, prev) ==
    IF prev.exc # "none" THEN prev
    ELSE IF prev.val.k = "none" THEN
        IF status = "past_fallback" /\ Truthy(Field(ld, "date_utc"))
        THEN Ret(Field(ld, "date_utc"))
        ELSE Ret(UnknownDate)
    ELSE prev

\* lines 139-223: the six sources in order, then the final fallback
ResolveDate(ld, now, year_now, status) ==
    FinalDateFallback(ld, status,
      DateFromDateStr(ld, now, year_now,
        DateFromQuicktext(ld, now, year_now,
          DateFromDescription(ld,
            DateFromEstDate(ld, year_now,
              DateFromSortDate(ld, Ret(DateFromWindow(ld))))))))

----------------------------------------------------------------------------
(* get_spacex_launch: the location of the launch, agent.py:226-277 *)

UnknownLaunchpad == Lit("Unknown Launchpad")

TheLaunchArea == Lit("the launch area")

\* lines 226-232
DefaultLocation ==
    [name |-> UnknownLaunchpad, latitude |-> None_, longitude |-> None_,
     region |-> EmptyStr, locality |-> EmptyStr]

\* lines 239-242: region and locality from the pad's location object
WithPadLocation(base, loc) ==
    IF ~Truthy(loc) THEN Ret(base)
    ELSE IF loc.k # "dict" THEN Raise("AttributeError")
    ELSE Ret([base EXCEPT !.region = GetDefault(loc, "state_name", EmptyStr).val,
                          !.locality = GetDefault(loc, "name", EmptyStr).val])

\* lines 235-242: what the pad object of the record supplies
LocationFromPad(ld) ==
    IF ~Truthy(Field(ld, "pad")) THEN Ret(DefaultLocation)
    ELSE IF Field(ld, "pad").k # "dict" THEN Raise("AttributeError")
    ELSE WithPadLocation([name |-> GetDefault(Field(ld, "pad"), "name", UnknownLaunchpad).val,
                          latitude |-> Field(Field(ld, "pad"), "latitude"),
                          longitude |-> Field(Field(ld, "pad"), "longitude"),
                          region |-> EmptyStr, locality |-> EmptyStr],
                         Field(Field(ld, "pad"), "location"))

\* line 246: the condition under which the launchpad lookup is made
NeedsLaunchpadLookup(li, ld) ==
    (~Truthy(li.latitude) \/ ~Truthy(li.longitude)) /\ Truthy(Field(ld, "launchpad"))

\* "Unknown Launchpad" in v: a substring test on a str (of the names drawn
\* here only the placeholder itself contains the phrase), a membership test
\* on a container, TypeError on None and on numbers
ContainsUnknownLaunchpad(v) ==
    IF v.k \in {"none", "int", "bool"} THEN Raise("TypeError")
    ELSE Ret(Bool(v = UnknownLaunchpad))

RequestExceptions == {"ConnectionError", "HTTPError", "JSONDecodeError"}

\* get_launchpad_details_from_spacex_api, lines 316-340, on the outcome of
\* its request: an exception of the request, or the body of the response
get_launchpad_details_from_spacex_api(outcome) ==
    IF outcome.exc # "none" THEN [status |-> "error", data |-> None_]
    ELSE IF outcome.val.k # "dict" THEN [status |-> "error", data |-> None_]
    ELSE [status |-> "success",
          data |-> Dict([name |-> Field(outcome.val, "full_name"),
                         latitude |-> Field(outcome.val, "latitude"),
                         longitude |-> Field(outcome.val, "longitude"),
                         region |-> Field(outcome.val, "region"),
                         locality |-> Field(outcome.val, "locality")])]

\* lines 250-258 without the tests of lines 253, 255 and 257: the lookup's
\* name, region and locality replace what the pad object gave
FillFromDetailsOverwriting(li, data, unknown) ==
    IF unknown.exc # "none" THEN unknown
    ELSE Ret([name |-> Field(data, "name"),
              latitude |-> Field(data, "latitude"),
              longitude |-> Field(data, "longitude"),
              region |-> Field(data, "region"),
              locality |-> Field(data, "locality")])

\* lines 250-258, unknown being the test of line 253
FillFromDetails(li, data, unknown) ==
    IF unknown.exc # "none" THEN unknown
    ELSE Ret([name |-> IF unknown.val.b THEN Field(data, "name") ELSE li.name,
              latitude |-> Field(data, "latitude"),
              longitude |-> Field(data, "longitude"),
              region |-> IF ~Truthy(li.region) THEN Field(data, "region") ELSE li.region,
              locality |-> IF ~Truthy(li.locality) THEN Field(data, "locality")
                           ELSE li.locality])

\* lines 249-258: the lookup's answer folded into location_info
ApplyLaunchpadDetails(li, details) ==
    IF details.status # "success" THEN Ret(li)
    ELSE FillFromDetails(li, details.data, ContainsUnknownLaunchpad(li.name))

\* ", ".join(parts): TypeError when a part is not a str
Join(parts) ==
    IF \E i \in 1..Len(parts) : parts[i].k # "str" THEN Raise("TypeError")
    ELSE IF Len(parts) = 1 THEN Ret(parts[1])
    ELSE Ret([k |-> "str", form |-> "joined", parts |-> parts])

\* line 272: launch_data.get("pad", {}).get("location", {}).get("country")
PadCountry(ld) ==
    ThenGet(ThenGetDefault(GetDefault(ld, "pad", EmptyDict), "location", EmptyDict), "country")

\* lines 265-266, unknown being the test of line 265
NameUnlessUnknown(name, unknown) ==
    IF unknown.exc # "none" THEN unknown
    ELSE Ret(IF unknown.val.b THEN << >> ELSE << name >>)

\* lines 263-266: the first part of the display name
LocalityOrName(li) ==
    IF Truthy(li.locality) THEN Ret(<< li.locality >>)
    ELSE IF ~Truthy(li.name) THEN Ret(<< >>)
    ELSE NameUnlessUnknown(li.name, ContainsUnknownLaunchpad(li.name))

\* line 277 without its `or "the launch area"`
JoinOrEmpty(parts) == IF parts = << >> THEN Ret(EmptyStr) ELSE Join(parts)

\* line 277 on the parts collected
JoinOrLaunchArea(parts) == IF parts = << >> THEN Ret(TheLaunchArea) ELSE Join(parts)

\* lines 261-277, first and country being the values of lines 263-266 and 272
DisplayNameOf(li, first, country) ==
    IF first.exc # "none" THEN first
    ELSE IF country.exc # "none" THEN country
    ELSE JoinOrLaunchArea(first.val
                          \o (IF Truthy(li.region) THEN << li.region >> ELSE << >>)
                          \o (IF Truthy(country.val) THEN << country.val >> ELSE << >>))

\* lines 261-277
DisplayName(li, ld) == DisplayNameOf(li, LocalityOrName(li), PadCountry(ld))

----------------------------------------------------------------------------
(* what the upstream services may answer *)

EmptyFun == [x \in {} |-> None_]

\* the pair key: value, or nothing when the key is missing
Opt(key, v) == IF v.k = "absent" THEN EmptyFun ELSE key :> v

\* the clock readings of line 50
NowSet == { DT(2025, 6, 1, 0, 0, 0, "utc"), DT(2025, 12, 31, 23, 59, 59, "utc") }

\* the datetime n seconds after dt, for n below a day
PlusSeconds(dt, n) ==
    LET inst == Instant(dt)
        sec == inst[2] + n
        c == CivilFromDays(inst[1] + sec \div 86400)
        r == sec % 86400
    IN  DT(c.y, c.mo, c.d, r \div 3600, (r % 3600) \div 60, r % 60, dt.tz)

\* timestamps around the clock readings
IsoFuture == IsoStr(2026, 1, 15, 3, 0, 0, "Z")

IsoPast == IsoStr(2025, 3, 10, 12, 30, 0, "Z")

IsoNaive == IsoStr(2025, 6, 19, 3, 0, 0, "")

TextTBD == Text(<< "T", "B", "D" >>)

\* entries of the next-N list that differ in provider and window
ScanEntries ==
    { ("provider" :> Dict("name" :> n)) @@ Opt("win_open", w) :
        n \in { Text(<< "S", "p", "a", "c", "e", "X" >>), Text(<< "S", "P", "A", "C", "E", "X" >>) },
        w \in { Absent, IsoFuture, IsoPast } }
    \cup { EmptyFun,
           "provider" :> EmptyDict,
           ("provider" :> Dict("name" :> Text(<< "U", "L", "A" >>))) @@ ("win_open" :> IsoFuture),
           "provider" :> None_,
           "provider" :> Dict("name" :> None_) }

\* the name of the entry at position i of the next-N list
EntryName(i) == Lit(<< "L1", "L2", "L3", "L4", "L5" >>[i])

ScanLists ==
    UNION { { [i \in 1..n |-> Dict(("name" :> EntryName(i)) @@ f[i])] :
                f \in [1..n -> ScanEntries] } : n \in 0..MaxLaunches }

WinOpenValues ==
    { IsoFuture, IsoPast, IsoStr(2025, 6, 19, 3, 0, 0, "+00:00"), IsoNaive, TextTBD, EmptyStr }

T0Values == { IsoFuture, IsoPast, TextTBD }

SortDateValues ==
    { IntVal(1750377596), DigitStr(1750377596), IntVal(1900000000), IntYearRange,
      IntOverflow, DigitStrOverflow, TextTBD, IsoNaive }

EstDateValues ==
    { Dict(Opt("year", y) @@ ("month" :> IntVal(m)) @@ ("day" :> IntVal(d))) :
        y \in { Absent, IntVal(2024), IntVal(2025) }, m \in { 2, 6, 13 }, d \in { 20, 29, 31 } }
    \cup { Dict(("year" :> y) @@ ("month" :> IntVal(6)) @@ ("day" :> IntVal(20))) :
             y \in { None_, Lit("2025"), IntOverflow, IntVal(0) } }
    \cup { Dict(("year" :> IntVal(2025)) @@ Opt("month", m) @@ ("day" :> IntVal(20))) :
             m \in { Absent, IntVal(0) } }
    \cup { Dict(("year" :> IntVal(2025)) @@ ("month" :> IntVal(6))),
           EmptyDict,
           Text(<< "J", "u", "n", "e", " ", "2", "0", "2", "5" >>) }

DescriptionValues ==
    { Text(<< "t", "a", "r", "g", "e", "t", "e", "d", " ", "f", "o", "r", " ", "J", "u", "n", "e", " ", "1", "9", ",", " ", "2", "0", "2", "5", " ", "(", "U", "T", "C", ")", "." >>),
      Text(<< "A", " ", "F", "a", "l", "c", "o", "n", " ", "9", " ", "r", "o", "c", "k", "e", "t", "." >>),
      Text(<< "o", "n", " ", "F", "e", "b", " ", "3", "0", ",", " ", "2", "0", "2", "5" >>),
      IntVal(7) }

QuicktextValues ==
    { Text(<< "J", "u", "n", " ", "1", "9", " ", "(", "e", "s", "t", "i", "m", "a", "t", "e", "d", ")" >>),
      Text(<< "F", "a", "l", "c", "o", "n", " ", "9", " ", "-", " ", "A", "x", "-", "4", " ", "-", " ", "J", "u", "n", " ", "1", "9", " ", "(", "e", "s", "t", "i", "m", "a", "t", "e", "d", ")" >>),
      Text(<< "A", "x", "-", "4", " ", "-", " ", "F", "e", "b", " ", "2", "9" >>),
      TextTBD,
      IntVal(7) }

DateStrValues ==
    { Text(<< "J", "u", "n", " ", "1", "9", ",", " ", "2", "0", "2", "5" >>),
      Text(<< "J", "a", "n", " ", "0", "5" >>),
      Text(<< "J", "u", "n", "e", " ", "2", "0", "2", "5" >>),
      IntVal(7) }

DateFieldNames ==
    << "win_open", "t0", "sort_date", "est_date", "launch_description", "quicktext",
       "date_str" >>

DateFieldValues ==
    << WinOpenValues, T0Values, SortDateValues, EstDateValues, DescriptionValues,
       QuicktextValues, DateStrValues >>

\* the date fields of a record, from field i on, at most `left` of them present
RECURSIVE FieldCombos(_, _)
FieldCombos(i, left) ==
    IF i > Len(DateFieldNames) THEN { EmptyFun }
    ELSE FieldCombos(i + 1, left)
         \cup (IF left = 0 THEN {}
               ELSE { (DateFieldNames[i] :> v) @@ rest :
                        v \in DateFieldValues[i], rest \in FieldCombos(i + 1, left - 1) })

SpaceXProvider == Dict("name" :> Text(<< "S", "p", "a", "c", "e", "X" >>))

\* next-N lists of one SpaceX entry that differ in its date fields
DateLists ==
    { << Dict(("name" :> EntryName(1)) @@ ("provider" :> SpaceXProvider) @@ f) >> :
        f \in FieldCombos(1, MaxDateFields) }

LaunchpadId == Lit("5e9e4502f509094188566f88")

PadValues ==
    { Absent, None_,
      Dict(("name" :> Lit("SLC-40")) @@ ("latitude" :> IntVal(28)) @@ ("longitude" :> IntVal(-80))
           @@ ("location" :> Dict(("name" :> Lit("Cape Canaveral"))
                                  @@ ("state_name" :> Lit("Florida"))
                                  @@ ("country" :> Lit("United States"))))),
      Dict(("name" :> Lit("SLC-40"))
           @@ ("location" :> Dict(("name" :> Lit("Cape Canaveral"))
                                  @@ ("state_name" :> Lit("Florida"))))),
      Dict(("latitude" :> IntVal(0)) @@ ("longitude" :> IntVal(-80))),
      Dict(("name" :> Lit("SLC-40")) @@ ("latitude" :> IntVal(28))),
      Dict("name" :> None_) }

\* next-N lists of one future SpaceX entry that differ in its location fields
LocationLists ==
    { << Dict(("name" :> EntryName(1)) @@ ("provider" :> SpaceXProvider)
              @@ ("win_open" :> IsoFuture) @@ Opt("pad", pad) @@ Opt("launchpad", id)) >> :
        pad \in PadValues, id \in { Absent, LaunchpadId } }

\* what the next-N request may end in: an exception of requests.get,
\* raise_for_status or response.json, or the body of the response
NextOutcomes ==
    { Raise(e) : e \in RequestExceptions }
    \cup { Ret(Dict("result" :> List(l))) : l \in ScanLists \cup DateLists \cup LocationLists }
    \cup { Ret(EmptyDict), Ret(Dict("result" :> None_)), Ret(List(<< >>)) }

IsoPast2024May == IsoStr(2024, 5, 15, 18, 30, 0, "Z")

IsoPast2024Jun == IsoStr(2024, 6, 1, 0, 0, 0, "Z")

\* records of the past-launches endpoint
PastEntries ==
    { ("success" :> Bool(TRUE)) @@ Opt("date_utc", d) :
        d \in { IsoPast2024May, IsoPast2024Jun, Absent, TextTBD, IsoNaive,
                IntVal(1715797800) } }
    \cup { ("success" :> Bool(TRUE)) @@ ("date_utc" :> IsoPast2024May)
           @@ ("launchpad" :> LaunchpadId) @@ ("details" :> Lit("A batch of Starlink satellites.")),
           ("success" :> Bool(FALSE)) @@ ("date_utc" :> IsoPast2024Jun),
           ("success" :> IntVal(1)) @@ ("date_utc" :> IsoPast2024May),
           "date_utc" :> IsoPast2024Jun }

\* the name of the entry at position i of the past-launches list
PastName(i) == Lit(<< "P1", "P2", "P3", "P4", "P5" >>[i])

PastLists ==
    UNION { { [i \in 1..n |-> Dict(("name" :> PastName(i)) @@ f[i])] :
                f \in [1..n -> PastEntries] } : n \in 0..MaxPast }

PastOutcomes ==
    { Raise(e) : e \in RequestExceptions }
    \cup { Ret(List(l)) : l \in PastLists }
    \cup { Ret(None_) }

\* what the launchpad request may end in
LaunchpadOutcomes ==
    { Raise("ConnectionError"), Raise("HTTPError"), Ret(None_),
      Ret(Dict(("full_name" :> Lit("Cape Canaveral SLC-40")) @@ ("latitude" :> IntVal(28))
               @@ ("longitude" :> IntVal(-80)) @@ ("region" :> Lit("Florida"))
               @@ ("locality" :> Lit("Cape Canaveral")))),
      Ret(Dict("full_name" :> Lit("Cape Canaveral SLC-40"))),
      Ret(Dict(("full_name" :> Lit("Cape Canaveral SLC-40")) @@ ("longitude" :> IntVal(-80)))) }

----------------------------------------------------------------------------
(* get_spacex_launch, agent.py:38-295, step by step *)

\* the except clauses with the one of lines 294-295 left out: an exception
\* that is no RequestException leaves the function
HandleRequestExceptionOnly(exc) ==
    IF exc \in RequestExceptions
    THEN [status |-> "error",
          error_message |-> Lit("Failed to fetch SpaceX launch data from RocketLaunch.Live FREE API")]
    ELSE [status |-> "raised", exception |-> exc]

\* the except clauses of lines 292-295
HandleException(exc) ==
    IF exc \in RequestExceptions
    THEN [status |-> "error",
          error_message |-> Lit("Failed to fetch SpaceX launch data from RocketLaunch.Live FREE API")]
    ELSE [status |-> "error",
          error_message |-> Lit("An unexpected error occurred while fetching RocketLaunch.Live FREE data")]

\* line 125
NoLaunchFound ==
    [status |-> "error",
     error_message |-> Lit("No upcoming or successful past SpaceX launches found from any source after all attempts.")]

\* line 129
NoLaunchData ==
    [status |-> "error",
     error_message |-> Lit("Failed to retrieve any SpaceX launch data after all attempts.")]

\* lines 133-134 and 282-290
LaunchInfo(ld, date_utc, li, display_name, status) ==
    [name |-> GetDefault(ld, "name", Lit("Unknown Launch")).val,
     date_utc |-> date_utc,
     details |-> GetDefault(ld, "launch_description",
                            GetDefault(ld, "details", Lit("No details available.")).val).val,
     location_info |-> [name |-> li.name, latitude |-> li.latitude,
                        longitude |-> li.longitude, region |-> li.region,
                        locality |-> li.locality, display_name |-> display_name],
     data_freshness_status |-> status]

\* no tool has been called
NoCallYet ==
    /\ pc = "idle"
    /\ TOOL_CALL_LOG = << >>
    /\ current_time_utc = None_
    /\ current_year = 0
    /\ launches = None_
    /\ found_spacex_in_next_5 = FALSE
    /\ launch_data = None_
    /\ data_freshness_status = "unknown"
    /\ launch_date_utc_str = None_
    /\ location_info = DefaultLocation
    /\ result = [status |-> "none"]
    /\ requests = [next |-> 0, past |-> 0, launchpad |-> 0, geocoding |-> 0, weather |-> 0]
    /\ response = None_
    /\ response_past = None_
    /\ response_launchpad = None_
    /\ launch_info = None_
    /\ weather_info = None_
    /\ launch_date = None_
    /\ summary_text = << >>
    /\ latitude = None_
    /\ longitude = None_
    /\ location_name = None_
    /\ coords_result = None_
    /\ response_geocoding = None_
    /\ response_weather = None_

\* the state after the module is loaded; the key of line 31 is read by the
\* weather tools only, and the other tools are followed from the state
\* without a key
Init == NoCallYet /\ OPENWEATHER_API_KEY = None_

\* an entry of TOOL_CALL_LOG: the string "tool", or "tool(arg)" when the
\* entry is formatted with an argument
LogEntry(tool, arg) == [tool |-> tool, arg |-> arg]

\* lines 46-52: the call is logged, the clock read and the status preset
EnterGetSpacexLaunch ==
    /\ pc = "idle"
    /\ TOOL_CALL_LOG' = Append(TOOL_CALL_LOG, LogEntry("get_spacex_launch", None_))
    /\ \E now \in NowSet : current_time_utc' = now
    /\ data_freshness_status' = "unknown"
    /\ pc' = "fetch_next"
    /\ UNCHANGED << summaryVars, weatherVars >>
    /\ UNCHANGED << response, response_past, current_year, launches,
                    found_spacex_in_next_5, launch_data, launch_date_utc_str,
                    location_info, result, requests, response_launchpad >>

\* line 80 on the outcome of the request: the list in the body
ResultList(o) == IF o.exc # "none" THEN o ELSE GetDefault(o.val, "result", List(<< >>))

\* the end of the request step with the request tried again after it failed
AfterFetchNextRetrying(ls) ==
    IF ls.exc # "none"
    THEN /\ pc' = "fetch_next"
         /\ UNCHANGED << result, launches >>
    ELSE /\ launches' = ls.val
         /\ pc' = "scan"
         /\ UNCHANGED result

\* the end of the request step, ls being the list or the exception
AfterFetchNext(ls) ==
    IF ls.exc # "none"
    THEN /\ result' = HandleException(ls.exc)
         /\ pc' = "done"
         /\ UNCHANGED launches
    ELSE /\ launches' = ls.val
         /\ pc' = "scan"
         /\ UNCHANGED result

\* lines 76-80: the next-N request and the list in its body
FetchNextLaunches ==
    /\ pc = "fetch_next"
    /\ requests' = [requests EXCEPT !.next = @ + 1]
    /\ \E o \in NextOutcomes :
         /\ response' = o
         /\ AfterFetchNext(ResultList(o))
    /\ UNCHANGED << summaryVars, weatherVars >>
    /\ UNCHANGED << response_past, TOOL_CALL_LOG, current_time_utc, current_year,
                    found_spacex_in_next_5, launch_data, data_freshness_status,
                    launch_date_utc_str, location_info, response_launchpad >>

\* the end of the scan, r being what the loop left or the exception
AfterScan(r) ==
    IF r.exc # "none"
    THEN /\ result' = HandleException(r.exc)
         /\ pc' = "done"
         /\ UNCHANGED << found_spacex_in_next_5, launch_data, data_freshness_status >>
    ELSE /\ found_spacex_in_next_5' = r.val.found
         /\ launch_data' = r.val.launch_data
         /\ data_freshness_status' = r.val.status
         /\ pc' = IF r.val.found THEN "date" ELSE "fetch_past"
         /\ UNCHANGED result

\* lines 82-105: the first SpaceX entry of the list and its freshness
ScanForSpaceX ==
    /\ pc = "scan"
    /\ AfterScan(ScanLaunches(launches, current_time_utc))
    /\ UNCHANGED << summaryVars, weatherVars >>
    /\ UNCHANGED << response, response_past, TOOL_CALL_LOG, current_time_utc,
                    current_year, launches, launch_date_utc_str, location_info,
                    requests, response_launchpad >>

\* lines 116-121 on the outcome of the past request
SelectPastOf(o) == IF o.exc # "none" THEN o ELSE SelectPast(o.val)

\* the end of the fallback, sel being the launch chosen, None or the exception
AfterFetchPast(sel) ==
    IF sel.exc # "none"
    THEN /\ result' = HandleException(sel.exc)
         /\ pc' = "done"
         /\ UNCHANGED launch_data
    ELSE IF sel.val.k = "none"
    THEN /\ result' = NoLaunchFound
         /\ pc' = "done"
         /\ UNCHANGED launch_data
    ELSE /\ launch_data' = sel.val
         /\ pc' = "date"
         /\ UNCHANGED result

\* lines 107-125: the fallback to the latest successful past launch
FetchPastLaunches ==
    /\ pc = "fetch_past"
    /\ data_freshness_status' = "no_spacex_in_next_5_fallback"
    /\ requests' = [requests EXCEPT !.past = @ + 1]
    /\ \E o \in PastOutcomes :
         /\ response_past' = o
         /\ AfterFetchPast(SelectPastOf(o))
    /\ UNCHANGED << summaryVars, weatherVars >>
    /\ UNCHANGED << response, TOOL_CALL_LOG, current_time_utc, current_year, launches,
                    found_spacex_in_next_5, launch_date_utc_str, location_info,
                    response_launchpad >>

\* the end of the date extraction, r being the string or the exception
AfterDate(year_now, r) ==
    IF r.exc # "none"
    THEN /\ result' = HandleException(r.exc)
         /\ pc' = "done"
         /\ current_year' = year_now
         /\ UNCHANGED launch_date_utc_str
    ELSE /\ launch_date_utc_str' = r.val
         /\ current_year' = year_now
         /\ pc' = "location"
         /\ UNCHANGED result

\* lines 139-223 with the year the clock of line 140 gave
ExtractDateIn(year_now) ==
    AfterDate(year_now,
              ResolveDate(launch_data, current_time_utc, year_now, data_freshness_status))

\* lines 128-223: the date of the chosen launch
ExtractDate ==
    /\ pc = "date"
    /\ IF launch_data.k = "none"
       THEN /\ result' = NoLaunchData
            /\ pc' = "done"
            /\ UNCHANGED << current_year, launch_date_utc_str >>
       ELSE \E adv \in 0..MaxClockAdvance :
                ExtractDateIn(PlusSeconds(current_time_utc, adv).y)
    /\ UNCHANGED << summaryVars, weatherVars >>
    /\ UNCHANGED << response, response_past, TOOL_CALL_LOG, current_time_utc, launches,
                    found_spacex_in_next_5, launch_data, data_freshness_status,
                    location_info, requests, response_launchpad >>

\* the end of lines 226-246, r being location_info or the exception
AfterLocation(r) ==
    IF r.exc # "none"
    THEN /\ result' = HandleException(r.exc)
         /\ pc' = "done"
         /\ UNCHANGED location_info
    ELSE /\ location_info' = r.val
         /\ pc' = IF NeedsLaunchpadLookup(r.val, launch_data) THEN "launchpad" ELSE "build"
         /\ UNCHANGED result

\* lines 226-246: the location the pad object gives
ExtractLocation ==
    /\ pc = "location"
    /\ AfterLocation(LocationFromPad(launch_data))
    /\ UNCHANGED << summaryVars, weatherVars >>
    /\ UNCHANGED << response, response_past, TOOL_CALL_LOG, current_time_utc,
                    current_year, launches, found_spacex_in_next_5, launch_data,
                    data_freshness_status, launch_date_utc_str, requests,
                    response_launchpad >>

\* the end of lines 247-258, r being location_info or the exception
AfterLaunchpad(r) ==
    IF r.exc # "none"
    THEN /\ result' = HandleException(r.exc)
         /\ pc' = "done"
         /\ UNCHANGED location_info
    ELSE /\ location_info' = r.val
         /\ pc' = "build"
         /\ UNCHANGED result

\* lines 247-258 and 313-340: the launchpad lookup and what it fills in
LaunchpadLookup ==
    /\ pc = "launchpad"
    /\ TOOL_CALL_LOG' = Append(TOOL_CALL_LOG,
                               LogEntry("get_launchpad_details_from_spacex_api",
                                        Field(launch_data, "launchpad")))
    /\ requests' = [requests EXCEPT !.launchpad = @ + 1]
    /\ \E o \in LaunchpadOutcomes :
         /\ response_launchpad' = o
         /\ AfterLaunchpad(ApplyLaunchpadDetails(location_info,
                                              get_launchpad_details_from_spacex_api(o)))
    /\ UNCHANGED << summaryVars, weatherVars >>
    /\ UNCHANGED << response, response_past, current_time_utc, current_year, launches,
                    found_spacex_in_next_5, launch_data, data_freshness_status,
                    launch_date_utc_str >>

\* lines 282-290 or the except clause, dn being the display name
Outcome(dn) ==
    IF dn.exc # "none" THEN HandleException(dn.exc)
    ELSE [status |-> "success",
          data |-> LaunchInfo(launch_data, launch_date_utc_str, location_info,
                              dn.val, data_freshness_status)]

\* lines 260-290: the display name and the success result
BuildLaunchInfo ==
    /\ pc = "build"
    /\ result' = Outcome(DisplayName(location_info, launch_data))
    /\ pc' = "done"
    /\ UNCHANGED << summaryVars, weatherVars >>
    /\ UNCHANGED << response, response_past, TOOL_CALL_LOG, current_time_utc,
                    current_year, launches, found_spacex_in_next_5, launch_data,
                    data_freshness_status, launch_date_utc_str, location_info, requests,
                    response_launchpad >>

Next ==
    \/ EnterGetSpacexLaunch
    \/ FetchNextLaunches
    \/ ScanForSpaceX
    \/ FetchPastLaunches
    \/ ExtractDate
    \/ ExtractLocation
    \/ LaunchpadLookup
    \/ BuildLaunchInfo

Spec == Init /\ [][Next]_vars

----------------------------------------------------------------------------
(* summarize_delay_potential, agent.py:451-513 *)

\* f"{v}": the text of a value inside a formatted string
Str(v) == IF v.k = "str" THEN v ELSE [k |-> "str", form |-> "format", of |-> v]

\* dt.strftime("%d %B %Y")
StrftimeDayMonthYear(dt) ==
    [k |-> "str", form |-> "day_month_year", d |-> dt.d, mo |-> dt.mo, y |-> dt.y]

AnUnknownDate == Lit("an unknown date")

\* lines 465-468 on the outcome of fromisoformat
FormatOrUnknownDate(dt) ==
    IF dt.exc # "none" THEN AnUnknownDate ELSE StrftimeDayMonthYear(dt.val)

\* lines 462-468: raw.replace raises AttributeError off anything but a str,
\* fromisoformat ValueError on a text that is no timestamp; both are caught
LaunchDateOf(raw) ==
    IF raw.k # "str" THEN AnUnknownDate ELSE FormatOrUnknownDate(FromIsoFormat(raw))

\* line 470
LaunchLocationName(li) ==
    ThenGetDefault(GetDefault(li, "location_info", EmptyDict), "display_name",
                   Lit("an unknown location"))

\* line 471
FreshnessStatusOf(li) == GetDefault(li, "data_freshness_status", Lit("unknown")).val

UnknownWeatherConditions ==
    Text(<< "u", "n", "k", "n", "o", "w", "n", " ", "w", "e", "a", "t", "h", "e", "r", " ",
            "c", "o", "n", "d", "i", "t", "i", "o", "n", "s" >>)

\* line 473
WeatherDescriptionOf(wi) == GetDefault(wi, "description", UnknownWeatherConditions).val

\* lines 478-482: the text as the sequence of its pieces (the degree sign of
\* the template is left out of the literals)
CurrentConditions(city, near, temperature, description, wind_speed) ==
    << Lit("Current weather in "), Str(city), Lit(" (near "), Str(near),
       Lit("):\nTemperature: "), Str(temperature), Lit("C (feels like "), Str(temperature),
       Lit("C), Description: "), Str(description), Lit(", Wind Speed: "), Str(wind_speed),
       Lit(" m/s.\n\n") >>

\* lines 473-482, near being the value of line 470
ReportNear(wi, near) ==
    IF near.exc # "none" THEN near
    ELSE IF wi.k # "dict" THEN Raise("AttributeError")
    ELSE Ret(CurrentConditions(GetDefault(wi, "city", TheLaunchArea).val, near.val,
                               Field(wi, "temperature"), WeatherDescriptionOf(wi),
                               Field(wi, "wind_speed")))

\* lines 461-482: the report of the current conditions, or the exception
\* of a .get on something that is no dict
ReportText(li, wi) ==
    IF li.k # "dict" THEN Raise("AttributeError") ELSE ReportNear(wi, LaunchLocationName(li))

\* lines 486-490
PastFallbackApology(date) ==
    << Lit("I am sorry, but as per the information available with me, the next launch date is "),
       date,
       Lit(". I understand that this is a date from the past. I apologize that my data source (the RocketLaunch.Live free API, with fallback to https://api.spacexdata.com/v4 for past launches) is not updated with a future launch at this moment.\n\n") >>

\* lines 492-495
FreshnessNote ==
    Lit("Please note: The freshness of the launch data retrieved from the RocketLaunch.Live free API could not be fully determined, but the system proceeded with the available information.\n\n")

\* lines 497-499
Disclaimer == Lit("None out of the next 5 global rocket launches is from SpaceX.\n\n")

\* lines 485-499 with the disclaimer put after the text
AppendDisclaimer(status, date, text) ==
    IF status = Lit("past_fallback") THEN text \o PastFallbackApology(date)
    ELSE IF status = Lit("unknown") THEN text \o << FreshnessNote >>
    ELSE IF status = Lit("no_spacex_in_next_5_fallback") THEN text \o << Disclaimer >>
    ELSE text

\* lines 485-499
WithFreshnessNote(status, date, text) ==
    IF status = Lit("past_fallback") THEN text \o PastFallbackApology(date)
    ELSE IF status = Lit("unknown") THEN text \o << FreshnessNote >>
    ELSE IF status = Lit("no_spacex_in_next_5_fallback") THEN << Disclaimer >> \o text
    ELSE text

\* sub in chars, on the characters of two strings
Contains(chars, sub) ==
    \E i \in 1..(Len(chars) - Len(sub) + 1) : SubSeq(chars, i, i + Len(sub) - 1) = sub

\* line 504: "rain" in d.lower() or "storm" in d.lower(); AttributeError
\* unless d is a str (a timestamp or a number in text form has no letters
\* of either word)
MentionsRainOrStorm(d) ==
    IF d.k # "str" THEN Raise("AttributeError")
    ELSE IF d.form # "text" THEN Ret(Bool(FALSE))
    ELSE Ret(Bool(\/ Contains(LowerChars(d.chars), << "r", "a", "i", "n" >>)
                  \/ Contains(LowerChars(d.chars), << "s", "t", "o", "r", "m" >>)))

\* v > n for a number v: TypeError when v is a str, a dict, a list
GreaterThan(v, n) ==
    IF v.k = "int" THEN Ret(Bool(v.n > n))
    ELSE IF v.k = "bool" THEN Ret(Bool((IF v.b THEN 1 ELSE 0) > n))
    ELSE Raise("TypeError")

\* v < n for a number v
LessThan(v, n) ==
    IF v.k = "int" THEN Ret(Bool(v.n < n))
    ELSE IF v.k = "bool" THEN Ret(Bool((IF v.b THEN 1 ELSE 0) < n))
    ELSE Raise("TypeError")

\* line 506: wind_speed and wind_speed > 10
HighWind(wind_speed) ==
    IF ~Truthy(wind_speed) THEN Ret(Bool(FALSE)) ELSE GreaterThan(wind_speed, 10)

\* a or b on two comparisons, b evaluated only when a is false
OrElse(a, b) == IF a.exc # "none" \/ a.val.b THEN a ELSE b

\* line 508: temperature and (temperature < -5 or temperature > 35)
ExtremeTemperature(temperature) ==
    IF ~Truthy(temperature) THEN Ret(Bool(FALSE))
    ELSE OrElse(LessThan(temperature, -5), GreaterThan(temperature, 35))

UnlikelyDelayed ==
    Lit("Based on *current* conditions, the launch appears unlikely to be delayed due to weather.")

RainStormDelay ==
    Lit("Current weather conditions (rain/storm) suggest a potential for delay.")

HighWindsDelay == Lit("High winds might pose a risk, suggesting a potential for delay.")

ExtremeTemperaturesDelay ==
    Lit("Extreme temperatures might affect launch readiness, suggesting a potential for delay.")

\* lines 503-509 with the wind tested before the description
DelayPredictionWindFirst(rain, wind, temp) ==
    IF wind.exc # "none" THEN wind
    ELSE IF wind.val.b THEN Ret(HighWindsDelay)
    ELSE IF rain.exc # "none" THEN rain
    ELSE IF rain.val.b THEN Ret(RainStormDelay)
    ELSE IF temp.exc # "none" THEN temp
    ELSE IF temp.val.b THEN Ret(ExtremeTemperaturesDelay)
    ELSE Ret(UnlikelyDelayed)

\* lines 503-509, rain, wind and temp being the three tests in the order
\* they are made: a test is made only when the ones before it are false
DelayPrediction(rain, wind, temp) ==
    IF rain.exc # "none" THEN rain
    ELSE IF rain.val.b THEN Ret(RainStormDelay)
    ELSE IF wind.exc # "none" THEN wind
    ELSE IF wind.val.b THEN Ret(HighWindsDelay)
    ELSE IF temp.exc # "none" THEN temp
    ELSE IF temp.val.b THEN Ret(ExtremeTemperaturesDelay)
    ELSE Ret(UnlikelyDelayed)

\* lines 503-509 on the weather
DelayPredictionOf(wi) ==
    DelayPrediction(MentionsRainOrStorm(WeatherDescriptionOf(wi)),
                    HighWind(Field(wi, "wind_speed")),
                    ExtremeTemperature(Field(wi, "temperature")))

\* line 511
DelaySummary(name, date, prediction) ==
    << Lit("Summary of delay potential for "), Str(name), Lit(" scheduled for "), date,
       Lit(": "), prediction,
       Lit(" Please note that this assessment is based on *current* weather conditions, as forecast data for future launch dates is not available through the free APIs used.") >>

\* an exception that leaves a tool function without a handler
Raised(exc) == [status |-> "raised", exception |-> exc]

\* lines 511-513, or the exception of the tests of lines 504-508
SummaryResult(li, text, date, prediction) ==
    IF prediction.exc # "none" THEN Raised(prediction.exc)
    ELSE [status |-> "success",
          summary |-> text \o DelaySummary(GetDefault(li, "name", Lit("the upcoming launch")).val,
                                           date, prediction.val)]

\* lines 485-513 on the report of lines 478-482
SummaryOfReport(li, wi, date, report) ==
    IF report.exc # "none" THEN Raised(report.exc)
    ELSE SummaryResult(li, WithFreshnessNote(FreshnessStatusOf(li), date, report.val), date,
                       DelayPredictionOf(wi))

\* the whole of summarize_delay_potential, lines 451-513
summarize_delay_potential(li, wi) ==
    SummaryOfReport(li, wi, LaunchDateOf(Field(li, "date_utc")), ReportText(li, wi))

\* the launch_info the tool may be handed
LaunchInfos ==
    { Dict(("name" :> Lit("Starlink 10-3")) @@ Opt("date_utc", d) @@ Opt("location_info", l)
           @@ Opt("data_freshness_status", s)) :
        d \in { Absent, None_, UnknownDate, IsoStr(2025, 6, 19, 3, 0, 0, "Z") },
        l \in { Absent, None_, Dict("display_name" :> Lit("Cape Canaveral, Florida")) },
        s \in { Absent, Lit("future"), Lit("found_but_not_future"),
                Lit("no_spacex_in_next_5_fallback"), Lit("unknown"), Lit("past_fallback") } }
    \cup { Dict(Opt("data_freshness_status", s)) :
             s \in { Absent, Lit("future"), Lit("no_spacex_in_next_5_fallback") } }

\* the weather_info the tool may be handed
WeatherInfos ==
    { Dict(("city" :> Lit("Cape Canaveral")) @@ Opt("description", d) @@ Opt("wind_speed", w)
           @@ Opt("temperature", t)) :
        d \in { Absent, None_, Text(<< "l", "i", "g", "h", "t", " ", "r", "a", "i", "n" >>),
                Text(<< "T", "h", "u", "n", "d", "e", "r", "s", "t", "o", "r", "m" >>),
                Text(<< "c", "l", "e", "a", "r", " ", "s", "k", "y" >>) },
        w \in { Absent, None_, IntVal(10), IntVal(11), Lit("12") },
        t \in { Absent, IntVal(-5), IntVal(-6), IntVal(35), IntVal(36) } }
    \cup { EmptyDict, Dict("temperature" :> IntVal(0)) }

\* the end of lines 457-482, report being the text or the exception
AfterReport(report) ==
    IF report.exc # "none"
    THEN /\ result' = Raised(report.exc)
         /\ pc' = "done"
         /\ UNCHANGED summary_text
    ELSE /\ summary_text' = report.val
         /\ pc' = "freshness_note"
         /\ UNCHANGED result

\* lines 457-482: the call is logged, the fields are read and the report of
\* the current conditions is written
CallSummarizeDelayPotential ==
    /\ pc = "idle"
    /\ TOOL_CALL_LOG' = Append(TOOL_CALL_LOG, LogEntry("summarize_delay_potential", None_))
    /\ \E li \in LaunchInfos, wi \in WeatherInfos :
         /\ launch_info' = li
         /\ weather_info' = wi
         /\ launch_date' = LaunchDateOf(Field(li, "date_utc"))
         /\ AfterReport(ReportText(li, wi))
    /\ UNCHANGED << requests, launchVars, weatherVars >>

\* lines 485-499: what the freshness status adds to the text
AddFreshnessNote ==
    /\ pc = "freshness_note"
    /\ summary_text' = WithFreshnessNote(FreshnessStatusOf(launch_info), launch_date,
                                         summary_text)
    /\ pc' = "delay_prediction"
    /\ UNCHANGED << TOOL_CALL_LOG, result, requests, launch_info, weather_info, launch_date,
                    launchVars, weatherVars >>

\* lines 503-513: the delay judgment and the return
AddDelayPrediction ==
    /\ pc = "delay_prediction"
    /\ result' = SummaryResult(launch_info, summary_text, launch_date,
                               DelayPredictionOf(weather_info))
    /\ pc' = "done"
    /\ UNCHANGED << TOOL_CALL_LOG, requests, summaryVars, launchVars, weatherVars >>

NextSummary ==
    \/ CallSummarizeDelayPotential
    \/ AddFreshnessNote
    \/ AddDelayPrediction

SpecSummary == Init /\ [][NextSummary]_vars

----------------------------------------------------------------------------
(* get_coordinates_from_name, agent.py:342-379, and                        *)
(* get_weather_at_location, agent.py:382-448                               *)

\* line 352
GeocodingKeyNotFound ==
    [status |-> "error", error_message |-> Lit("OpenWeatherMap API key not found.")]

\* line 379
CouldNotFindCoordinates ==
    [status |-> "error",
     error_message |-> Lit("Could not find coordinates for '{location_name}' via OpenWeatherMap Geocoding.")]

\* lines 365-370 on the body of the geocoding response: the coordinates of
\* its first entry, None_ when the body is empty or the entry lacks one of
\* them; geo_data[0] raises KeyError on an object, len() TypeError on a
\* number, .get AttributeError on an entry that is no object
CoordinatesInBody(geo) ==
    IF ~Truthy(geo) THEN Ret(None_)
    ELSE IF geo.k = "dict" THEN Raise("KeyError")
    ELSE IF geo.k # "list" THEN Raise("TypeError")
    ELSE IF geo.items[1].k # "dict" THEN Raise("AttributeError")
    ELSE IF Field(geo.items[1], "lat").k # "none" /\ Field(geo.items[1], "lon").k # "none"
    THEN Ret(Dict(("latitude" :> Field(geo.items[1], "lat"))
                  @@ ("longitude" :> Field(geo.items[1], "lon"))))
    ELSE Ret(None_)

\* lines 360-379, found being the coordinates or the exception: both except
\* clauses only print, and the function ends in the error of line 379
GeocodingResult(found) ==
    IF found.exc # "none" THEN CouldNotFindCoordinates
    ELSE IF found.val.k = "none" THEN CouldNotFindCoordinates
    ELSE [status |-> "success", data |-> found.val]

\* lines 360-379 on the outcome of the request
GeocodingResultOf(outcome) ==
    IF outcome.exc # "none" THEN CouldNotFindCoordinates
    ELSE GeocodingResult(CoordinatesInBody(outcome.val))

\* line 390
WeatherKeyNotFound ==
    [status |-> "error",
     error_message |-> Lit("OpenWeatherMap API key not found. Please set OPENWEATHER_API_KEY in your .env file.")]

\* line 402
UnableToGetCoordinates ==
    [status |-> "error",
     error_message |-> Lit("Unable to get coordinates for weather check. Reason: {coords_result['error_message']}")]

\* line 405
CoordinatesRequired ==
    [status |-> "error",
     error_message |-> Lit("Latitude and Longitude are required for weather lookup and could not be determined.")]

\* r[key] further along a chain of subscripts: KeyError when an object
\* lacks the key, TypeError when r is no object
Item(r, key) ==
    IF r.exc # "none" THEN r
    ELSE IF r.val.k # "dict" THEN Raise("TypeError")
    ELSE IF key \in DOMAIN r.val.d THEN Ret(r.val.d[key])
    ELSE Raise("KeyError")

\* r[0] further along a chain of subscripts
FirstItem(r) ==
    IF r.exc # "none" THEN r
    ELSE IF r.val.k = "dict" THEN Raise("KeyError")
    ELSE IF r.val.k # "list" THEN Raise("TypeError")
    ELSE IF r.val.items = << >> THEN Raise("IndexError")
    ELSE Ret(r.val.items[1])

\* lines 420-423: temperature, feels_like, description, wind_speed
WeatherDetails(body) ==
    << Item(Item(Ret(body), "main"), "temp"),
       Item(Item(Ret(body), "main"), "feels_like"),
       Item(FirstItem(Item(Ret(body), "weather")), "description"),
       Item(Item(Ret(body), "wind"), "speed") >>

\* lines 426-430: the text as the sequence of its pieces (the degree sign of
\* the template is left out of the literals)
WeatherReport(city, lat, lon, temperature, feels_like, description, wind_speed) ==
    << Lit("Current weather in "), Str(city), Lit(" (Lat: "), Str(lat), Lit(", Lon: "),
       Str(lon), Lit("): Temperature: "), Str(temperature), Lit("C (feels like "),
       Str(feels_like), Lit("C), Description: "), Str(description), Lit(", Wind Speed: "),
       Str(wind_speed), Lit(" m/s.") >>

\* lines 443-448: the error of the except clause that catches the exception
WeatherError(exc) ==
    [status |-> "error",
     error_message |->
        IF exc \in RequestExceptions THEN Lit("Failed to fetch weather data")
        ELSE IF exc = "KeyError" THEN Lit("Missing expected data in weather response")
        ELSE Lit("An unexpected error occurred fetching weather")]

\* the first exception among the values read in order, "none" without one
FirstException(parts) ==
    IF \A i \in 1..Len(parts) : parts[i].exc = "none" THEN "none"
    ELSE parts[CHOOSE i \in 1..Len(parts) :
                   /\ parts[i].exc # "none"
                   /\ \A j \in 1..(i - 1) : parts[j].exc = "none"].exc

\* lines 420-448, parts being the four values of lines 420-423
WeatherData(body, parts, lat, lon, name) ==
    IF FirstException(parts) # "none" THEN WeatherError(FirstException(parts))
    ELSE [status |-> "success",
          data |-> [temperature |-> parts[1].val,
                    description |-> parts[3].val,
                    wind_speed |-> parts[4].val,
                    city |-> GetDefault(body, "name", name).val,
                    report_text |-> WeatherReport(GetDefault(body, "name", name).val, lat, lon,
                                                  parts[1].val, parts[2].val, parts[3].val,
                                                  parts[4].val)]]

\* lines 414-448 on the outcome of the request
WeatherResultOf(outcome, lat, lon, name) ==
    IF outcome.exc # "none" THEN WeatherError(outcome.exc)
    ELSE WeatherData(outcome.val, WeatherDetails(outcome.val), lat, lon, name)

\* os.getenv("OPENWEATHER_API_KEY"), line 31: unset, set to nothing, set
ApiKeys == { None_, EmptyStr, Lit("0123456789abcdef") }

\* the arguments the tools may be handed
LatitudeArgs == { None_, IntVal(0), IntVal(28) }

LongitudeArgs == { None_, IntVal(-80) }

LocationNameArgs == { None_, EmptyStr, Lit("Cape Canaveral, Florida") }

\* what the geocoding request may end in
GeocodingOutcomes ==
    { Raise(e) : e \in RequestExceptions }
    \cup { Ret(List(<< >>)),
           Ret(List(<< Dict(("name" :> Lit("Cape Canaveral")) @@ ("lat" :> IntVal(28))
                            @@ ("lon" :> IntVal(-80))) >>)),
           Ret(List(<< Dict(("lat" :> IntVal(0)) @@ ("lon" :> IntVal(0))) >>)),
           Ret(List(<< Dict(("name" :> Lit("Cape Canaveral")) @@ ("lat" :> IntVal(28))) >>)),
           Ret(List(<< None_ >>)),
           Ret(Dict(("cod" :> IntVal(401)) @@ ("message" :> Lit("Invalid API key")))),
           Ret(None_) }

\* what the weather request may end in
WeatherOutcomes ==
    { Raise(e) : e \in RequestExceptions }
    \cup { Ret(Dict(("main" :> Dict(("temp" :> IntVal(24)) @@ ("feels_like" :> IntVal(25))))
                    @@ ("weather" :> List(<< Dict("description" :> Lit("clear sky")) >>))
                    @@ ("wind" :> Dict("speed" :> IntVal(4))) @@ Opt("name", n))) :
             n \in { Absent, Lit("Cape Canaveral") } }
    \cup { Ret(Dict(("main" :> Dict(("temp" :> IntVal(24)) @@ ("feels_like" :> IntVal(25))))
                    @@ ("weather" :> List(<< >>))
                    @@ ("wind" :> Dict("speed" :> IntVal(4))))),
           Ret(Dict(("main" :> Dict(("temp" :> IntVal(24)) @@ ("feels_like" :> IntVal(25))))
                    @@ ("weather" :> List(<< Dict("description" :> Lit("clear sky")) >>)))),
           Ret(Dict(("cod" :> IntVal(401)) @@ ("message" :> Lit("Invalid API key")))),
           Ret(None_) }

\* the state after the module is loaded, the key being what the environment
\* holds
InitWeather == NoCallYet /\ OPENWEATHER_API_KEY \in ApiKeys

\* get_coordinates_from_name returns r: to the agent, or into line 396 of
\* get_weather_at_location when called from there
ReturnCoordinates(r) ==
    IF pc \in {"weather_call_coordinates", "weather_geocoding"}
    THEN /\ coords_result' = r
         /\ pc' = "weather_coordinates_returned"
         /\ UNCHANGED result
    ELSE /\ result' = r
         /\ pc' = "done"
         /\ UNCHANGED coords_result

\* lines 348-352 without the test of the key
AfterCoordinatesCalledNoKeyCheck ==
    /\ pc' = IF pc = "idle" THEN "geocoding" ELSE "weather_geocoding"
    /\ UNCHANGED << result, coords_result >>

\* lines 348-352: the call is logged and the key looked at
AfterCoordinatesCalled ==
    IF ~Truthy(OPENWEATHER_API_KEY) THEN ReturnCoordinates(GeocodingKeyNotFound)
    ELSE /\ pc' = IF pc = "idle" THEN "geocoding" ELSE "weather_geocoding"
         /\ UNCHANGED << result, coords_result >>

\* lines 348-352: the agent calls get_coordinates_from_name
CallGetCoordinatesFromName ==
    /\ pc = "idle"
    /\ \E name \in LocationNameArgs :
         /\ location_name' = name
         /\ TOOL_CALL_LOG' = Append(TOOL_CALL_LOG, LogEntry("get_coordinates_from_name", name))
    /\ AfterCoordinatesCalled
    /\ UNCHANGED << requests, launchVars, summaryVars, OPENWEATHER_API_KEY, latitude,
                    longitude, response_geocoding, response_weather >>

\* lines 396 and 348-352: get_weather_at_location calls
\* get_coordinates_from_name with its location_name
WeatherCallsGetCoordinatesFromName ==
    /\ pc = "weather_call_coordinates"
    /\ TOOL_CALL_LOG' = Append(TOOL_CALL_LOG,
                               LogEntry("get_coordinates_from_name", location_name))
    /\ AfterCoordinatesCalled
    /\ UNCHANGED << requests, launchVars, summaryVars, OPENWEATHER_API_KEY, latitude,
                    longitude, location_name, response_geocoding, response_weather >>

\* lines 355-379: the geocoding request and what the function returns
GeocodingRequest ==
    /\ pc \in {"geocoding", "weather_geocoding"}
    /\ requests' = [requests EXCEPT !.geocoding = @ + 1]
    /\ \E o \in GeocodingOutcomes :
         /\ response_geocoding' = o
         /\ ReturnCoordinates(GeocodingResultOf(o))
    /\ UNCHANGED << TOOL_CALL_LOG, launchVars, summaryVars, OPENWEATHER_API_KEY, latitude,
                    longitude, location_name, response_weather >>

\* lines 394-405 without the test of line 404
AfterWeatherCalledNoCoordinateCheck(lat, lon, name) ==
    IF ~Truthy(OPENWEATHER_API_KEY)
    THEN result' = WeatherKeyNotFound /\ pc' = "done"
    ELSE IF (lat.k = "none" \/ lon.k = "none") /\ Truthy(name)
    THEN pc' = "weather_call_coordinates" /\ UNCHANGED result
    ELSE pc' = "weather_request" /\ UNCHANGED result

\* lines 394-405 with the name looked up whenever one is given
AfterWeatherCalledGeocodingNamed(lat, lon, name) ==
    IF ~Truthy(OPENWEATHER_API_KEY)
    THEN result' = WeatherKeyNotFound /\ pc' = "done"
    ELSE IF Truthy(name)
    THEN pc' = "weather_call_coordinates" /\ UNCHANGED result
    ELSE IF lat.k = "none" \/ lon.k = "none"
    THEN result' = CoordinatesRequired /\ pc' = "done"
    ELSE pc' = "weather_request" /\ UNCHANGED result

\* lines 394 and 404-405: with both coordinates the weather is requested,
\* with a location name the coordinates are looked up first, with neither
\* the call ends in an error
AfterWeatherCalled(lat, lon, name) ==
    IF ~Truthy(OPENWEATHER_API_KEY)
    THEN result' = WeatherKeyNotFound /\ pc' = "done"
    ELSE IF (lat.k = "none" \/ lon.k = "none") /\ Truthy(name)
    THEN pc' = "weather_call_coordinates" /\ UNCHANGED result
    ELSE IF lat.k = "none" \/ lon.k = "none"
    THEN result' = CoordinatesRequired /\ pc' = "done"
    ELSE pc' = "weather_request" /\ UNCHANGED result

\* lines 387-405 with the call logged after the test of the key
CallGetWeatherAtLocationKeyFirst ==
    /\ pc = "idle"
    /\ \E lat \in LatitudeArgs, lon \in LongitudeArgs, name \in LocationNameArgs :
         /\ latitude' = lat
         /\ longitude' = lon
         /\ location_name' = name
         /\ TOOL_CALL_LOG' =
                IF ~Truthy(OPENWEATHER_API_KEY) THEN TOOL_CALL_LOG
                ELSE Append(TOOL_CALL_LOG,
                            LogEntry("get_weather_at_location",
                                     [lat |-> lat, lon |-> lon, loc |-> name]))
         /\ AfterWeatherCalled(lat, lon, name)
    /\ UNCHANGED << requests, launchVars, summaryVars, OPENWEATHER_API_KEY, coords_result,
                    response_geocoding, response_weather >>

\* lines 387-405: the call is logged, the key looked at and the arguments
\* examined
CallGetWeatherAtLocation ==
    /\ pc = "idle"
    /\ \E lat \in LatitudeArgs, lon \in LongitudeArgs, name \in LocationNameArgs :
         /\ latitude' = lat
         /\ longitude' = lon
         /\ location_name' = name
         /\ TOOL_CALL_LOG' = Append(TOOL_CALL_LOG,
                                    LogEntry("get_weather_at_location",
                                             [lat |-> lat, lon |-> lon, loc |-> name]))
         /\ AfterWeatherCalled(lat, lon, name)
    /\ UNCHANGED << requests, launchVars, summaryVars, OPENWEATHER_API_KEY, coords_result,
                    response_geocoding, response_weather >>

\* lines 397-405 on the result of get_coordinates_from_name
CoordinatesReturned ==
    /\ pc = "weather_coordinates_returned"
    /\ IF coords_result.status = "success"
       THEN /\ latitude' = Field(coords_result.data, "latitude")
            /\ longitude' = Field(coords_result.data, "longitude")
            /\ IF \/ Field(coords_result.data, "latitude").k = "none"
                  \/ Field(coords_result.data, "longitude").k = "none"
               THEN result' = CoordinatesRequired /\ pc' = "done"
               ELSE pc' = "weather_request" /\ UNCHANGED result
       ELSE /\ result' = UnableToGetCoordinates
            /\ pc' = "done"
            /\ UNCHANGED << latitude, longitude >>
    /\ UNCHANGED << TOOL_CALL_LOG, requests, launchVars, summaryVars, OPENWEATHER_API_KEY,
                    location_name, coords_result, response_geocoding, response_weather >>

\* lines 408-448: the weather request and what the function returns
WeatherRequest ==
    /\ pc = "weather_request"
    /\ requests' = [requests EXCEPT !.weather = @ + 1]
    /\ \E o \in WeatherOutcomes :
         /\ response_weather' = o
         /\ result' = WeatherResultOf(o, latitude, longitude, location_name)
    /\ pc' = "done"
    /\ UNCHANGED << TOOL_CALL_LOG, launchVars, summaryVars, OPENWEATHER_API_KEY, latitude,
                    longitude, location_name, coords_result, response_geocoding >>

NextWeather ==
    \/ CallGetCoordinatesFromName
    \/ CallGetWeatherAtLocation
    \/ WeatherCallsGetCoordinatesFromName
    \/ GeocodingRequest
    \/ CoordinatesReturned
    \/ WeatherRequest

SpecWeather == InitWeather /\ [][NextWeather]_vars

----------------------------------------------------------------------------
(* a run of the agent, agent.py:517-551: the tools are called one after    *)
(* the other on the one log, which clear_tool_log empties between runs     *)

\* most entries the log holds when a further tool is called
MaxLogged == 2

\* line 25: get_tool_log returns the log
get_tool_log == TOOL_CALL_LOG

\* lines 18-21: clear_tool_log binds the log to a new empty list
clear_tool_log ==
    /\ pc = "idle"
    /\ TOOL_CALL_LOG' = << >>
    /\ UNCHANGED << pc, result, requests, launchVars, summaryVars, weatherVars >>

\* the return statement of a tool: the locals of the call are gone, the
\* agent holds what the tool returned, the log and the key stay as they are
ToolReturns ==
    /\ pc = "done"
    /\ pc' = "idle"
    /\ requests' = [next |-> 0, past |-> 0, launchpad |-> 0, geocoding |-> 0, weather |-> 0]
    /\ current_time_utc' = None_
    /\ current_year' = 0
    /\ launches' = None_
    /\ found_spacex_in_next_5' = FALSE
    /\ launch_data' = None_
    /\ data_freshness_status' = "unknown"
    /\ launch_date_utc_str' = None_
    /\ location_info' = DefaultLocation
    /\ response' = None_
    /\ response_past' = None_
    /\ response_launchpad' = None_
    /\ launch_info' = None_
    /\ weather_info' = None_
    /\ launch_date' = None_
    /\ summary_text' = << >>
    /\ latitude' = None_
    /\ longitude' = None_
    /\ location_name' = None_
    /\ coords_result' = None_
    /\ response_geocoding' = None_
    /\ response_weather' = None_
    /\ UNCHANGED << TOOL_CALL_LOG, result, OPENWEATHER_API_KEY >>

\* next-N lists of a run: one future SpaceX entry on a named pad, with and
\* without coordinates, with and without a launchpad id
RunLaunchLists ==
    { l \in LocationLists :
        /\ "pad" \in DOMAIN l[1].d
        /\ l[1].d["pad"].k = "dict"
        /\ "location" \in DOMAIN l[1].d["pad"].d }

\* next-N lists of a run without a SpaceX entry: none, and one of ULA
RunOtherLists ==
    { l \in ScanLists :
        \/ l = << >>
        \/ /\ Len(l) = 1
           /\ "provider" \in DOMAIN l[1].d
           /\ l[1].d["provider"] = Dict("name" :> Text(<< "U", "L", "A" >>)) }

\* how the next-N request of a run ends: it fails, or the list is one of
\* RunLaunchLists and RunOtherLists
RunNextOutcomes ==
    { o \in NextOutcomes : o.exc # "none" }
    \cup { Ret(Dict("result" :> List(l))) : l \in RunLaunchLists \cup RunOtherLists }

\* how the past request of a run ends: it fails, or the list is one
\* successful launch with a launchpad id
RunPastOutcomes ==
    { o \in PastOutcomes : o.exc # "none" }
    \cup { Ret(List(l)) : l \in { p \in PastLists : Len(p) = 1 /\ "launchpad" \in DOMAIN p[1].d } }

\* how the launchpad request of a run ends: it fails, or the body has the
\* coordinates
RunLaunchpadOutcomes ==
    { o \in LaunchpadOutcomes :
        \/ o.exc # "none"
        \/ o.exc = "none" /\ o.val.k = "dict" /\ "latitude" \in DOMAIN o.val.d }

\* how the geocoding request of a run ends: it fails, or the body is empty
\* or has the coordinates of the place
RunGeocodingOutcomes ==
    { o \in GeocodingOutcomes :
        \/ o.exc # "none"
        \/ o.exc = "none" /\ o.val = List(<< >>)
        \/ /\ o.exc = "none"
           /\ o.val.k = "list"
           /\ Len(o.val.items) = 1
           /\ o.val.items[1].k = "dict"
           /\ {"name", "lat", "lon"} \subseteq DOMAIN o.val.items[1].d }

\* how the weather request of a run ends: it fails, or the body is complete
RunWeatherOutcomes ==
    { o \in WeatherOutcomes :
        \/ o.exc # "none"
        \/ o.exc = "none" /\ o.val.k = "dict" /\ "name" \in DOMAIN o.val.d }

\* the launch_info of a run: a dated launch with a place, upcoming or not
RunLaunchInfos ==
    { li \in LaunchInfos :
        /\ {"date_utc", "location_info", "data_freshness_status"} \subseteq DOMAIN li.d
        /\ li.d["date_utc"] = IsoStr(2025, 6, 19, 3, 0, 0, "Z")
        /\ li.d["location_info"] # None_
        /\ li.d["data_freshness_status"] \in { Lit("future"), Lit("found_but_not_future") } }

\* the weather_info of a run: mild, with one of the descriptions
RunWeatherInfos ==
    { wi \in WeatherInfos :
        /\ {"description", "wind_speed", "temperature"} \subseteq DOMAIN wi.d
        /\ wi.d["description"] # None_
        /\ wi.d["wind_speed"] = IntVal(10)
        /\ wi.d["temperature"] = IntVal(35) }

\* the agent calls get_spacex_launch
RunGetSpacexLaunch ==
    /\ Len(TOOL_CALL_LOG) < MaxLogged
    /\ EnterGetSpacexLaunch
    /\ current_time_utc' = DT(2025, 6, 1, 0, 0, 0, "utc")

RunFetchNextLaunches == FetchNextLaunches /\ response' \in RunNextOutcomes

RunFetchPastLaunches == FetchPastLaunches /\ response_past' \in RunPastOutcomes

RunLaunchpadLookup == LaunchpadLookup /\ response_launchpad' \in RunLaunchpadOutcomes

\* the agent calls get_coordinates_from_name with the name of a place
RunGetCoordinatesFromName ==
    /\ Len(TOOL_CALL_LOG) < MaxLogged
    /\ CallGetCoordinatesFromName
    /\ Truthy(location_name')

\* the agent calls get_weather_at_location with both coordinates or none,
\* with and without the name of a place
RunGetWeatherAtLocation ==
    /\ Len(TOOL_CALL_LOG) < MaxLogged
    /\ CallGetWeatherAtLocation
    /\ (latitude' = None_) <=> (longitude' = None_)
    /\ location_name' # EmptyStr

RunGeocodingRequest == GeocodingRequest /\ response_geocoding' \in RunGeocodingOutcomes

RunWeatherRequest == WeatherRequest /\ response_weather' \in RunWeatherOutcomes

\* the agent calls summarize_delay_potential
RunSummarizeDelayPotential ==
    /\ Len(TOOL_CALL_LOG) < MaxLogged
    /\ CallSummarizeDelayPotential
    /\ launch_info' \in RunLaunchInfos
    /\ weather_info' \in RunWeatherInfos

NextRun ==
    \/ RunGetSpacexLaunch
    \/ RunFetchNextLaunches
    \/ ScanForSpaceX
    \/ RunFetchPastLaunches
    \/ ExtractDate
    \/ ExtractLocation
    \/ RunLaunchpadLookup
    \/ BuildLaunchInfo
    \/ RunGetCoordinatesFromName
    \/ RunGetWeatherAtLocation
    \/ WeatherCallsGetCoordinatesFromName
    \/ RunGeocodingRequest
    \/ CoordinatesReturned
    \/ RunWeatherRequest
    \/ RunSummarizeDelayPotential
    \/ AddFreshnessNote
    \/ AddDelayPrediction
    \/ ToolReturns
    \/ clear_tool_log

SpecRun == InitWeather /\ [][NextRun]_vars

----------------------------------------------------------------------------
(* properties of get_spacex_launch *)

\* the call has returned the success form
Success == pc = "done" /\ result.status = "success"

\* v is the text of an ISO-8601 timestamp of an existing instant, in UTC
IsIsoUtc(v) ==
    /\ v.k = "str"
    /\ v.form = "iso"
    /\ v.tz \in {"Z", "+00:00"}
    /\ ValidDate(v.y, v.mo, v.d)
    /\ ValidTime(v.h, v.mi, v.s)

\* C1: in every success result data.date_utc is a valid ISO-8601 UTC
\* timestamp string or the literal "Unknown Date", whatever the date fields
\* of the raw record hold
C1_DateUtcIsoOrUnknown ==
    Success => (IsIsoUtc(result.data.date_utc) \/ result.data.date_utc = UnknownDate)

\* the result has one of the two forms of the return type
WellFormedResult(r) ==
    \/ /\ r.status = "success"
       /\ DOMAIN r = {"status", "data"}
       /\ DOMAIN r.data = {"name", "date_utc", "details", "location_info",
                           "data_freshness_status"}
    \/ /\ r.status = "error"
       /\ DOMAIN r = {"status", "error_message"}
       /\ r.error_message.k = "str"

\* C2: whatever the upstream services answer, the call returns the success
\* form or the error form (no exception reaches the caller), and a failed
\* next-N or past-launches request yields the error form
C2_AlwaysWellFormedResult ==
    pc = "done" =>
        /\ WellFormedResult(result)
        /\ (requests.next = 1 /\ response.exc # "none") => result.status = "error"
        /\ (requests.past = 1 /\ response_past.exc # "none") => result.status = "error"

C2_Witness_PastRequestFails ==
    /\ pc = "done"
    /\ requests.past = 1
    /\ response_past.exc = "ConnectionError"
    /\ result.status = "error"

\* the entry carries a provider whose name is "spacex" in some letter case
NamedSpaceX(l) ==
    /\ l.k = "dict"
    /\ "provider" \in DOMAIN l.d
    /\ l.d.provider.k = "dict"
    /\ "name" \in DOMAIN l.d.provider.d
    /\ l.d.provider.d.name.k = "str"
    /\ l.d.provider.d.name.form = "text"
    /\ LowerChars(l.d.provider.d.name.chars) = << "s", "p", "a", "c", "e", "x" >>

\* the position of the first such entry of a list, 0 when it has none
FirstSpaceX(items) ==
    IF \E i \in 1..Len(items) : NamedSpaceX(items[i])
    THEN CHOOSE i \in 1..Len(items) :
             /\ NamedSpaceX(items[i])
             /\ \A j \in 1..(i - 1) : ~NamedSpaceX(items[j])
    ELSE 0

\* the field value parses to a timestamp
ParsesToTimestamp(v) ==
    /\ parse_rll_date(v).exc = "none"
    /\ parse_rll_date(v).val.k = "datetime"

\* the status the first of win_open, t0, sort_date that parses calls for
ExpectedFreshness(e, now) ==
    LET fields == << Field(e, "win_open"), Field(e, "t0"), Field(e, "sort_date") >>
        ok == {i \in 1..3 : ParsesToTimestamp(fields[i])}
        first == CHOOSE i \in ok : \A j \in ok : i <= j
    IN  IF ok # {} /\ InstantLess(Instant(now), Instant(parse_rll_date(fields[first]).val))
        THEN "future"
        ELSE "found_but_not_future"

\* C3: whenever the next-N list holds a SpaceX entry the call returns
\* success, with status "future" when the first of the entry's win_open, t0,
\* sort_date that parses is after the current time and "found_but_not_future"
\* otherwise, whatever the shape of the three fields
C3_FirstSpaceXEntryClassified ==
    (pc = "done" /\ launches.k = "list" /\ FirstSpaceX(launches.items) # 0) =>
        /\ result.status = "success"
        /\ result.data.data_freshness_status =
               ExpectedFreshness(launches.items[FirstSpaceX(launches.items)],
                                 current_time_utc)

\* C4: the launch is the first entry, in list order, of the next-N list
\* whose provider is named "spacex" in any letter case, classified as the
\* list cut after that entry would have it; the fallback is taken only when
\* the list has no such entry
C4_FirstSpaceXEntrySelected ==
    launches.k = "list" =>
        /\ found_spacex_in_next_5 =>
             LET i == FirstSpaceX(launches.items) IN
             /\ i # 0
             /\ launch_data = launches.items[i]
             /\ data_freshness_status =
                    ScanLaunches(List(SubSeq(launches.items, 1, i)), current_time_utc).val.status
             /\ Success => /\ result.data.name = Field(launches.items[i], "name")
                           /\ result.data.data_freshness_status = data_freshness_status
        /\ (pc = "fetch_past" \/ requests.past > 0) => FirstSpaceX(launches.items) = 0

C4_Witness_LaterFutureEntryIgnored ==
    /\ Success
    /\ Len(launches.items) = 2
    /\ NamedSpaceX(launches.items[1])
    /\ NamedSpaceX(launches.items[2])
    /\ ExpectedFreshness(launches.items[2], current_time_utc) = "future"
    /\ result.data.name = EntryName(1)
    /\ result.data.data_freshness_status = "found_but_not_future"

\* the list the next-N body carries has no entry whose provider is named
\* "spacex"; a body without the key carries no list
NoSpaceXInBody(body) ==
    /\ body.k = "dict"
    /\ \/ "result" \notin DOMAIN body.d
       \/ /\ body.d.result.k = "list"
          /\ FirstSpaceX(body.d.result.items) = 0

\* C5: if no entry of the next-N list (an empty or missing list included)
\* has a provider named "spacex" in any letter case, the past-launches
\* source is queried exactly once in the call and every success result
\* carries the status "no_spacex_in_next_5_fallback"
C5_FallbackQueriedOnce ==
    (pc = "done" /\ response.exc = "none" /\ NoSpaceXInBody(response.val)) =>
        /\ requests.past = 1
        /\ result.status = "success" =>
               result.data.data_freshness_status = "no_spacex_in_next_5_fallback"

\* the past-launches body has no entry whose success flag equals true (as
\* == compares: the number 1 equals true)
NoSuccessfulEntry(body) ==
    body.k = "list" =>
        \A i \in 1..Len(body.items) :
            ~(/\ body.items[i].k = "dict"
              /\ "success" \in DOMAIN body.items[i].d
              /\ body.items[i].d.success \in {Bool(TRUE), IntVal(1)})

\* C6: if the fallback is used and the past-launches response has no entry
\* with success == true, the call returns the error form with a message; a
\* success result always carries its data
C6_NoSuccessfulPastIsError ==
    /\ (pc = "done" /\ requests.past = 1 /\ response_past.exc = "none"
        /\ NoSuccessfulEntry(response_past.val)) =>
           (result.status = "error" /\ result.error_message.k = "str")
    /\ Success => (DOMAIN result = {"status", "data"} /\ result.data.name.k # "none")

C6_Witness_OnlyFailedLaunches ==
    /\ pc = "done"
    /\ requests.past = 1
    /\ response_past.exc = "none"
    /\ response_past.val.k = "list"
    /\ Len(response_past.val.items) = 2
    /\ \A i \in 1..2 : Field(response_past.val.items[i], "success") = Bool(FALSE)
    /\ result = NoLaunchFound

\* C7: when the launch is taken from the historical fallback, date_utc of
\* the result is the chosen past launch's own date_utc, not "Unknown Date"
C7_FallbackKeepsPastDate ==
    (Success /\ ~found_spacex_in_next_5 /\ IsIsoUtc(Field(launch_data, "date_utc"))) =>
        /\ result.data.date_utc = Field(launch_data, "date_utc")
        /\ result.data.date_utc # UnknownDate

\* the date step has run to its end on a launch of the next-N list
DateResolved ==
    /\ pc \in {"location", "launchpad", "build", "done"}
    /\ found_spacex_in_next_5
    /\ launch_date_utc_str.k # "none"

\* what each source of the date yields by itself, in priority order: the
\* direct timestamp (win_open, else t0) when it parses, and what the steps
\* of sort_date, est_date, launch_description, quicktext and date_str make
\* of their field; None_ when the source yields nothing or fails
SourceYields(ld, now, year_now) ==
    LET direct == IF ParsesToTimestamp(Field(ld, "win_open")) THEN Field(ld, "win_open")
                  ELSE IF ParsesToTimestamp(Field(ld, "t0")) THEN Field(ld, "t0")
                  ELSE None_
        alone == << DateFromSortDate(ld, Ret(None_)),
                    DateFromEstDate(ld, year_now, Ret(None_)),
                    DateFromDescription(ld, Ret(None_)),
                    DateFromQuicktext(ld, now, year_now, Ret(None_)),
                    DateFromDateStr(ld, now, year_now, Ret(None_)) >>
    IN  << direct >>
        \o [i \in 1..5 |-> IF alone[i].exc = "none" THEN alone[i].val ELSE None_]

\* the value of the highest-priority source that yields one
FirstYield(ys) ==
    IF \A i \in 1..Len(ys) : ys[i].k = "none" THEN UnknownDate
    ELSE ys[CHOOSE i \in 1..Len(ys) :
                /\ ys[i].k # "none"
                /\ \A j \in 1..(i - 1) : ys[j].k = "none"]

\* C8: date_utc comes from the highest-priority source, in the order
\* (win_open, t0), sort_date, est_date, launch_description, quicktext,
\* date_str, that yields a parseable value; a higher-priority field that is
\* present but does not parse does not keep the lower ones from being used
C8_HighestPrioritySourceWins ==
    DateResolved =>
        launch_date_utc_str =
            FirstYield(SourceYields(launch_data, current_time_utc, current_year))

\* C9: a failure inside a step of the date resolution is swallowed: from
\* the date step the call always goes on to the location step with a date
\* string, "Unknown Date" when no source gave one, and no error result
C9_DateStepNeverFails ==
    [][pc = "date" => (pc' = "location" /\ launch_date_utc_str'.k # "none"
                       /\ result' = result)]_vars

\* est_date is the highest-priority source of the record that can be used:
\* no direct timestamp, nothing from sort_date, est_date an object
EstDateComesFirst(ld) ==
    /\ ~Truthy(Field(ld, "win_open"))
    /\ ~Truthy(Field(ld, "t0"))
    /\ parse_rll_date(Field(ld, "sort_date")) = Ret(None_)
    /\ Field(ld, "est_date").k = "dict"

\* the year, month and day est_date stands for: the current year when it
\* has no year
EstYear(est, year_now) == IF "year" \in DOMAIN est.d THEN est.d.year ELSE IntVal(year_now)

\* est_date names an existing day
EstDateValid(est, year_now) ==
    /\ EstYear(est, year_now).k = "int"
    /\ Field(est, "month").k = "int"
    /\ Field(est, "day").k = "int"
    /\ EstYear(est, year_now).mag = "ok"
    /\ Field(est, "month").mag = "ok"
    /\ Field(est, "day").mag = "ok"
    /\ ValidDate(EstYear(est, year_now).n, Field(est, "month").n, Field(est, "day").n)

\* the record without its est_date
WithoutEstDate(ld) == Dict([key \in DOMAIN ld.d \ {"est_date"} |-> ld.d[key]])

\* C10: for a record whose first usable date source is est_date, a valid
\* {year, month, day} gives midnight UTC of that day, the current UTC year
\* standing in for a missing year, and an est_date with an invalid calendar
\* value or without month or day gives no date: the resolution goes on to
\* the next source, as if the record had no est_date
C10_EstDateResolution ==
    (/\ pc \in {"location", "launchpad", "build", "done"}
     /\ launch_data.k = "dict"
     /\ found_spacex_in_next_5
     /\ EstDateComesFirst(launch_data)) =>
        LET est == Field(launch_data, "est_date")
            rest == ResolveDate(WithoutEstDate(launch_data), current_time_utc,
                                current_year, data_freshness_status)
        IN  IF EstDateValid(est, current_year)
            THEN launch_date_utc_str =
                     IsoStr(EstYear(est, current_year).n, Field(est, "month").n,
                            Field(est, "day").n, 0, 0, 0, "Z")
            ELSE rest.exc = "none" => launch_date_utc_str = rest.val

\* the date fields of the record are its quicktext and nothing else
OnlyQuicktext(ld) ==
    /\ ld.k = "dict"
    /\ DOMAIN ld.d \cap {"win_open", "t0", "sort_date", "est_date", "launch_description",
                         "quicktext", "date_str"} = {"quicktext"}
    /\ ld.d.quicktext.k = "str"
    /\ ld.d.quicktext.form = "text"

\* the month and day of the "Mon DD" that starts at position i of a text: an
\* abbreviated month name that starts a word, white space, a day of one or
\* two digits; month 0 when none starts there
MonthDayAt(s, i) ==
    LET w == SpanEnd(s, i + 3, "space")
        e == SpanEnd(s, w, "digit")
    IN  IF /\ i + 4 <= Len(s)
           /\ (i = 1 \/ ~IsAlpha(s[i - 1]))
           /\ MonthNumber(MonthAbbr, SubSeq(s, i, i + 2)) # 0
           /\ IsSpace(s[i + 3])
           /\ w <= Len(s)
           /\ e - w \in {1, 2}
        THEN [mo |-> MonthNumber(MonthAbbr, SubSeq(s, i, i + 2)),
              d |-> DigitsValue(SubSeq(s, w, e - 1))]
        ELSE [mo |-> 0, d |-> 0]

\* the "Mon DD" dates a text contains
MonthDaysIn(s) == { MonthDayAt(s, i) : i \in 1..Len(s) } \ { [mo |-> 0, d |-> 0] }

\* midnight UTC of the month and day in the current year, or in the next
\* year when that date is more than 7 days before now and its month is not
\* after the current month
RolledMonthDay(md, now, year_now) ==
    LET rolled == /\ InstantLess(Instant(DT(year_now, md.mo, md.d, 0, 0, 0, "utc")),
                                 MinusDays(Instant(now), 7))
                  /\ md.mo <= now.mo
    IN  IsoStr(IF rolled THEN year_now + 1 ELSE year_now, md.mo, md.d, 0, 0, 0, "Z")

\* C11: for a record whose only date source is a quicktext containing an
\* abbreviated "Mon DD", the resolved date is that month and day in the
\* current UTC year, rolled forward to the next year exactly when the
\* current-year date is more than 7 days before now and its month is less
\* than or equal to the current month
C11_QuicktextMonthDay ==
    (DateResolved /\ OnlyQuicktext(launch_data)) =>
        \A md \in MonthDaysIn(launch_data.d.quicktext.chars) :
            (ValidDate(current_year, md.mo, md.d) /\ ValidDate(current_year + 1, md.mo, md.d)) =>
                launch_date_utc_str = RolledMonthDay(md, current_time_utc, current_year)

\* C12: in every success result latitude and longitude of location_info
\* are both present or both absent, whatever the pad object supplies (one of
\* the two only included) and however the launchpad lookup ends
C12_CoordinatesTogether ==
    Success =>
        (result.data.location_info.latitude.k = "none"
         <=> result.data.location_info.longitude.k = "none")

\* a text of at least one character
NonEmptyText(v) == v.k = "str" /\ v # EmptyStr

\* the country of the location object of the record's pad object, None_
\* when the record has no such object or the object no country
CountryOfPad(ld) ==
    IF /\ "pad" \in DOMAIN ld.d
       /\ ld.d.pad.k = "dict"
       /\ "location" \in DOMAIN ld.d.pad.d
       /\ ld.d.pad.d.location.k = "dict"
       /\ "country" \in DOMAIN ld.d.pad.d.location.d
    THEN ld.d.pad.d.location.d.country
    ELSE None_

\* the non-empty ones of: locality, else the name unless it is the
\* placeholder; region; country
DisplayParts(li, country) ==
    (IF NonEmptyText(li.locality) THEN << li.locality >>
     ELSE IF NonEmptyText(li.name) /\ li.name # UnknownLaunchpad THEN << li.name >>
     ELSE << >>)
    \o (IF NonEmptyText(li.region) THEN << li.region >> ELSE << >>)
    \o (IF NonEmptyText(country) THEN << country >> ELSE << >>)

\* the parts joined with ", ", "the launch area" when there is none
JoinedParts(parts) ==
    IF parts = << >> THEN TheLaunchArea
    ELSE IF Len(parts) = 1 THEN parts[1]
    ELSE [k |-> "str", form |-> "joined", parts |-> parts]

C13_Witness_TheLaunchArea ==
    /\ Success
    /\ launch_data.k = "dict"
    /\ "pad" \in DOMAIN launch_data.d
    /\ result.data.location_info.name.k = "none"
    /\ result.data.location_info.display_name = TheLaunchArea

\* the pad object of the record supplies neither latitude nor longitude
NoPadCoordinates(ld) ==
    /\ ld.k = "dict"
    /\ ("pad" \in DOMAIN ld.d /\ ld.d.pad.k = "dict") =>
           /\ Field(ld.d.pad, "latitude").k = "none"
           /\ Field(ld.d.pad, "longitude").k = "none"

\* the launchpad request failed or its body is no object
LookupFailed(o) == o.exc # "none" \/ o.val.k # "dict"

\* C14: missing coordinates never make the call fail: when the record has
\* no pad coordinates and either no launchpad id (then no lookup is made) or
\* a lookup that ends in an error, the call, once past the date step,
\* returns success with latitude and longitude absent and display_name made
\* of the remaining parts
C14_MissingCoordinatesTolerated ==
    (/\ pc = "done"
     /\ launch_date_utc_str.k # "none"
     /\ NoPadCoordinates(launch_data)
     /\ \/ "launchpad" \notin DOMAIN launch_data.d
        \/ (requests.launchpad = 1 /\ LookupFailed(response_launchpad))) =>
        /\ "launchpad" \notin DOMAIN launch_data.d => requests.launchpad = 0
        /\ result.status = "success"
        /\ result.data.location_info.latitude.k = "none"
        /\ result.data.location_info.longitude.k = "none"
        /\ result.data.location_info.display_name =
               JoinedParts(DisplayParts(result.data.location_info, CountryOfPad(launch_data)))

----------------------------------------------------------------------------
(* properties of summarize_delay_potential *)

\* summarize_delay_potential has ended, by a return or by an exception
SummarizeEnded == pc = "done" /\ launch_info.k = "dict" /\ weather_info.k = "dict"

\* summarize_delay_potential has returned
SummaryReturned == SummarizeEnded /\ result.status = "success"

Judgments == { UnlikelyDelayed, RainStormDelay, HighWindsDelay, ExtremeTemperaturesDelay }

\* the judgment the first matching rule calls for: rain or storm in the
\* description in any letter case, wind above 10, temperature below -5 or
\* above 35, none of these
ExpectedJudgment(wi) ==
    LET d == IF "description" \in DOMAIN wi.d THEN wi.d.description
             ELSE UnknownWeatherConditions
        w == Field(wi, "wind_speed")
        t == Field(wi, "temperature")
    IN  IF /\ d.k = "str"
           /\ d.form = "text"
           /\ \E i \in 1..Len(d.chars) :
                \/ /\ i + 3 <= Len(d.chars)
                   /\ LowerChars(SubSeq(d.chars, i, i + 3)) = << "r", "a", "i", "n" >>
                \/ /\ i + 4 <= Len(d.chars)
                   /\ LowerChars(SubSeq(d.chars, i, i + 4)) = << "s", "t", "o", "r", "m" >>
        THEN RainStormDelay
        ELSE IF w.k = "int" /\ w.n > 10 THEN HighWindsDelay
        ELSE IF t.k = "int" /\ (t.n < -5 \/ t.n > 35) THEN ExtremeTemperaturesDelay
        ELSE UnlikelyDelayed

\* C15: the summary carries exactly one delay judgment, chosen by first
\* match: rain or storm in the description (in any letter case, also when
\* wind or temperature are out of range), else wind_speed above 10, else
\* temperature below -5 or above 35, else (wind exactly 10, temperature
\* exactly -5 or 35, all three absent) "unlikely to be delayed"
C15_OneJudgmentByFirstMatch ==
    SummaryReturned =>
        /\ Cardinality({ i \in 1..Len(result.summary) : result.summary[i] \in Judgments }) = 1
        /\ result.summary[Len(result.summary) - 1] = ExpectedJudgment(weather_info)

C15_Witness_RainBeforeWindAndHeat ==
    /\ SummaryReturned
    /\ Field(weather_info, "wind_speed") = IntVal(11)
    /\ Field(weather_info, "temperature") = IntVal(36)
    /\ ExpectedJudgment(weather_info) = RainStormDelay
    /\ result.summary[Len(result.summary) - 1] = RainStormDelay

\* the launch_info with another freshness status
WithStatus(li, s) == Dict(("data_freshness_status" :> s) @@ li.d)

C17_OtherStatusesSameSummary ==
    (SummaryReturned
     /\ ("data_freshness_status" \in DOMAIN launch_info.d =>
            launch_info.d.data_freshness_status
                \in { Lit("future"), Lit("found_but_not_future"), Lit("unknown") })) =>
        result.summary =
            summarize_delay_potential(WithStatus(launch_info, Lit("future")),
                                      weather_info).summary

\* C18: for every launch_info and weather_info, fields missing, null or of
\* an unexpected type included, the call returns status "success" with a
\* non-empty summary; no exception leaves the function
C18_SummarizeAlwaysReturns ==
    SummarizeEnded => (result.status = "success" /\ result.summary # << >>)

----------------------------------------------------------------------------
(* properties of get_coordinates_from_name and get_weather_at_location *)

\* the tool the agent called, "none" before the call
ToolCalled == IF TOOL_CALL_LOG = << >> THEN "none" ELSE TOOL_CALL_LOG[1].tool

\* the arguments get_weather_at_location was called with
WeatherArgs == TOOL_CALL_LOG[1].arg

\* no key is configured: the variable is unset or set to nothing
KeyNotConfigured == OPENWEATHER_API_KEY = None_ \/ OPENWEATHER_API_KEY = EmptyStr

\* C19: without a configured key get_weather_at_location and
\* get_coordinates_from_name each return the error form with an API-key
\* message of their own and issue no HTTP request, and
\* get_weather_at_location does not call get_coordinates_from_name
C19_NoKeyNoRequest ==
    KeyNotConfigured =>
        /\ requests.geocoding = 0
        /\ requests.weather = 0
        /\ Len(TOOL_CALL_LOG) <= 1
        /\ pc \in {"idle", "done"}
        /\ (pc = "done" /\ ToolCalled = "get_coordinates_from_name") =>
               result = [status |-> "error",
                         error_message |-> Lit("OpenWeatherMap API key not found.")]
        /\ (pc = "done" /\ ToolCalled = "get_weather_at_location") =>
               result = [status |-> "error",
                         error_message |-> Lit("OpenWeatherMap API key not found. Please set OPENWEATHER_API_KEY in your .env file.")]

C19_Witness_WeatherWithoutKey ==
    /\ KeyNotConfigured
    /\ pc = "done"
    /\ ToolCalled = "get_weather_at_location"
    /\ WeatherArgs.lat = None_
    /\ Truthy(WeatherArgs.loc)
    /\ result.status = "error"
    /\ TOOL_CALL_LOG = << LogEntry("get_weather_at_location", WeatherArgs) >>

\* get_weather_at_location was called without one of the coordinates
CoordinateMissing ==
    /\ ToolCalled = "get_weather_at_location"
    /\ (WeatherArgs.lat = None_ \/ WeatherArgs.lon = None_)

\* C20: the weather request is issued only with both latitude and longitude
\* known; when one is missing in the call they are first resolved through
\* get_coordinates_from_name, provided a location_name is given, and when
\* that fails or no location_name is given the call returns the error form
\* and no weather request is ever issued
C20_CoordinatesBeforeWeather ==
    /\ (pc = "weather_request" \/ requests.weather > 0) =>
           (latitude # None_ /\ longitude # None_)
    /\ (CoordinateMissing /\ (pc = "weather_request" \/ requests.weather > 0)) =>
           /\ Truthy(WeatherArgs.loc)
           /\ Len(TOOL_CALL_LOG) = 2
           /\ TOOL_CALL_LOG[2] = LogEntry("get_coordinates_from_name", WeatherArgs.loc)
           /\ requests.geocoding = 1
           /\ coords_result.status = "success"
           /\ latitude = coords_result.data.d.latitude
           /\ longitude = coords_result.data.d.longitude
    /\ (/\ CoordinateMissing
        /\ pc = "done"
        /\ \/ ~Truthy(WeatherArgs.loc)
           \/ coords_result # None_ /\ coords_result.status = "error") =>
           (result.status = "error" /\ requests.weather = 0)
    /\ (ToolCalled = "get_weather_at_location" /\ ~CoordinateMissing) =>
           (requests.geocoding = 0 /\ Len(TOOL_CALL_LOG) = 1)

C20_Witness_GeocodedThenWeather ==
    /\ CoordinateMissing
    /\ pc = "done"
    /\ requests.geocoding = 1
    /\ requests.weather = 1
    /\ result.status = "success"
    /\ latitude = IntVal(28)
    /\ longitude = IntVal(-80)

----------------------------------------------------------------------------
(* further properties of get_spacex_launch *)

\* the statuses a launch is returned with
ReturnedStatuses == { "future", "found_but_not_future", "no_spacex_in_next_5_fallback" }

\* C23: every success result of get_spacex_launch carries a
\* data_freshness_status in {future, found_but_not_future,
\* no_spacex_in_next_5_fallback}; once a launch is selected the status is
\* neither the initial "unknown" nor "past_fallback", so the final date
\* fallback and the summarizer never see those two values for a launch info
\* get_spacex_launch produced
C23_ReturnedStatusIsClassified ==
    /\ Success => result.data.data_freshness_status \in ReturnedStatuses
    /\ pc \in {"date", "location", "launchpad", "build"}
          => data_freshness_status \in ReturnedStatuses
    /\ data_freshness_status # "past_fallback"

\* a launch of the past endpoint is returned with the fallback status
C23_Witness_FallbackStatusReturned ==
    /\ Success
    /\ requests.past = 1
    /\ result.data.data_freshness_status = "no_spacex_in_next_5_fallback"

\* a SpaceX entry that is not in the future is returned
C23_Witness_NotFutureReturned ==
    /\ Success
    /\ result.data.data_freshness_status = "found_but_not_future"

\* the body of the past-launches response is a list of records
PastListReturned ==
    /\ requests.past = 1
    /\ response_past # None_
    /\ response_past.exc = "none"
    /\ response_past.val.k = "list"

\* the records of the past-launches body with success == true, in list order
SuccessfulEntries ==
    SelectSeq(response_past.val.items, LAMBDA x : EqualsTrue(Field(x, "success")))

\* date_utc of the record is the text of a timestamp
HasParseableDate(x) ==
    /\ Field(x, "date_utc").k = "str"
    /\ Field(x, "date_utc").form = "iso"
    /\ ValidDate(Field(x, "date_utc").y, Field(x, "date_utc").mo, Field(x, "date_utc").d)
    /\ ValidTime(Field(x, "date_utc").h, Field(x, "date_utc").mi, Field(x, "date_utc").s)

\* the instant the record ranks at: its date, or the least timestamp
RankOf(x) ==
    IF HasParseableDate(x)
    THEN Instant(DT(Field(x, "date_utc").y, Field(x, "date_utc").mo, Field(x, "date_utc").d,
                    Field(x, "date_utc").h, Field(x, "date_utc").mi, Field(x, "date_utc").s,
                    "utc"))
    ELSE Instant(DatetimeMinUtc)

\* the call ended in an error inside the fallback, before the date step
FailedInFallback ==
    /\ pc = "done"
    /\ result.status = "error"
    /\ current_year = 0

\* C24: in the historical fallback the launch taken is a record with
\* success == true whose parsed date_utc is maximal among them, a record
\* whose date_utc is missing or unparseable ranking as the least timestamp
\* (so it is taken only when no successful record has a parseable date), and
\* the operation does not fail whatever the date_utc of the successful
\* records holds
C24_MostRecentSuccessfulPast ==
    (PastListReturned /\ SuccessfulEntries # << >>) =>
        /\ ~FailedInFallback
        /\ \E i \in 1..Len(SuccessfulEntries) : launch_data = SuccessfulEntries[i]
        /\ \A i \in 1..Len(SuccessfulEntries) :
             ~InstantLess(RankOf(launch_data), RankOf(SuccessfulEntries[i]))

\* the launchpad lookup was made and answered with an object
LookupSucceeded ==
    /\ requests.launchpad = 1
    /\ response_launchpad # None_
    /\ response_launchpad.exc = "none"
    /\ response_launchpad.val.k = "dict"

\* the call ended in the error form
EndedInError == pc = "done" /\ result.status = "error"

\* what the record's own pad object supplied, before any lookup
PrimaryLocation == LocationFromPad(launch_data).val

C25_Witness_PlaceholderReplaced ==
    /\ Success
    /\ LookupSucceeded
    /\ PrimaryLocation = DefaultLocation
    /\ result.data.location_info.name = Lit("Cape Canaveral SLC-40")
    /\ result.data.location_info.region = Lit("Florida")
    /\ result.data.location_info.latitude = IntVal(28)

\* the positions after the first of a text at which a "Mon DD" of an
\* existing day of the year starts: the date is preceded by other words
PrecededMonthDays(s, year) ==
    { i \in 2..Len(s) : /\ MonthDayAt(s, i).mo # 0
                        /\ ValidDate(year, MonthDayAt(s, i).mo, MonthDayAt(s, i).d)
                        /\ ValidDate(year + 1, MonthDayAt(s, i).mo, MonthDayAt(s, i).d) }

\* C26: for a quicktext in which the "Mon DD" date is preceded by other
\* words and numbers, as in "Falcon 9 - Ax-4 - Jun 19 (estimated)", and a
\* record with no other date source, the quicktext step extracts that
\* "Mon DD" and date_utc is resolved to a timestamp of that month and day
C26_QuicktextDateAfterOtherWords ==
    (DateResolved /\ OnlyQuicktext(launch_data)) =>
        \A i \in PrecededMonthDays(launch_data.d.quicktext.chars, current_year) :
            /\ launch_date_utc_str.k = "str"
            /\ launch_date_utc_str.form = "iso"
            /\ launch_date_utc_str.mo = MonthDayAt(launch_data.d.quicktext.chars, i).mo
            /\ launch_date_utc_str.d = MonthDayAt(launch_data.d.quicktext.chars, i).d

\* the value denotes a timestamp strictly after now
DenotesInstantAfter(v, now) ==
    /\ ParsesToTimestamp(v)
    /\ InstantLess(Instant(now), Instant(parse_rll_date(v).val))

\* C27: the two date priority lists agree: whenever the call returns the
\* status "future", date_utc of the same result is a parseable timestamp
\* strictly after the current UTC time of the call, and whenever it returns
\* "found_but_not_future", date_utc does not denote a timestamp strictly
\* after that time
C27_FreshnessAgreesWithDate ==
    Success =>
        /\ result.data.data_freshness_status = "future"
              => DenotesInstantAfter(result.data.date_utc, current_time_utc)
        /\ result.data.data_freshness_status = "found_but_not_future"
              => ~DenotesInstantAfter(result.data.date_utc, current_time_utc)

\* the pad object of the record supplies a latitude and a longitude
PadHasBothCoordinates(ld) ==
    /\ ld.k = "dict"
    /\ "pad" \in DOMAIN ld.d
    /\ ld.d.pad.k = "dict"
    /\ Field(ld.d.pad, "latitude").k = "int"
    /\ Field(ld.d.pad, "longitude").k = "int"

\* C28: when the pad object of the selected record supplies both a latitude
\* and a longitude (any numbers, 0 included), the returned location_info
\* carries exactly those two values and the launchpad lookup is not made,
\* also when the record carries a launchpad id
C28_PadCoordinatesKept ==
    (pc = "done" /\ launch_date_utc_str.k # "none" /\ PadHasBothCoordinates(launch_data)) =>
        /\ requests.launchpad = 0
        /\ Success
        /\ result.data.location_info.latitude = Field(launch_data.d.pad, "latitude")
        /\ result.data.location_info.longitude = Field(launch_data.d.pad, "longitude")

\* the only date field of the record is a date_str without a year
OnlyDateStrWithoutYear(ld) ==
    /\ ld.k = "dict"
    /\ DOMAIN ld.d \cap {"win_open", "t0", "sort_date", "est_date", "launch_description",
                         "quicktext", "date_str"} = {"date_str"}
    /\ ld.d.date_str.k = "str"
    /\ ld.d.date_str.form = "text"
    /\ ~HasFourDigits(ld.d.date_str.chars)

\* midnight UTC of the month and day in the year lies more than 7 days
\* before now
MoreThanAWeekBefore(year, mo, d, now) ==
    InstantLess(Instant(DT(year, mo, d, 0, 0, 0, "utc")), MinusDays(Instant(now), 7))

\* the first and the last second of every day of a common and of a leap
\* year, as readings of the clock
ClockReadingsOfAYear ==
    { now \in { DT(y, mo, d, t[1], t[2], t[3], "utc") :
                  y \in {2025, 2028}, mo \in 1..12, d \in 1..31,
                  t \in { << 0, 0, 0 >>, << 23, 59, 59 >> } } :
        ValidDate(now.y, now.mo, now.d) }

\* the date step made a timestamp by the year heuristic of quicktext and
\* date_str
ResolvedByYearHeuristic ==
    /\ DateResolved
    /\ OnlyQuicktext(launch_data) \/ OnlyDateStrWithoutYear(launch_data)
    /\ launch_date_utc_str.k = "str"
    /\ launch_date_utc_str.form = "iso"

\* C29: in the year heuristic of quicktext and date_str the month test
\* never changes the outcome: for the clock readings of a call and every
\* month and day placed in the current year, a date more than 7 days before
\* now has a month not after the current month, so the date is rolled to
\* the next year exactly when it lies more than 7 days in the past
C29_MonthTestIsRedundant ==
    /\ pc = "location" =>
         \A mo \in 1..12, d \in 1..31 :
             (/\ ValidDate(current_year, mo, d)
              /\ MoreThanAWeekBefore(current_year, mo, d, current_time_utc))
                 => mo <= current_time_utc.mo
    /\ pc = "idle" =>
         \A now \in ClockReadingsOfAYear, later \in {0, 1}, mo \in 1..12, d \in 1..31 :
             (/\ ValidDate(now.y + later, mo, d)
              /\ MoreThanAWeekBefore(now.y + later, mo, d, now))
                 => mo <= now.mo
    /\ ResolvedByYearHeuristic =>
         launch_date_utc_str.y =
             IF MoreThanAWeekBefore(current_year, launch_date_utc_str.mo,
                                    launch_date_utc_str.d, current_time_utc)
             THEN current_year + 1
             ELSE current_year

\* "Jan 05" read on 1 June 2025 is rolled to 2026
C29_Witness_RolledToNextYear ==
    /\ ResolvedByYearHeuristic
    /\ current_time_utc = DT(2025, 6, 1, 0, 0, 0, "utc")
    /\ launch_date_utc_str = IsoStr(2026, 1, 5, 0, 0, 0, "Z")

\* the year changed between the two clock readings: the date is placed in
\* the new year and not rolled
C29_Witness_YearChangedBetweenReadings ==
    /\ ResolvedByYearHeuristic
    /\ current_time_utc.y = 2025
    /\ current_year = 2026
    /\ launch_date_utc_str.y = 2026

----------------------------------------------------------------------------
(* properties of a run of the agent *)

\* a helper called by the tool in progress has logged its call: the
\* launchpad lookup of get_spacex_launch, or get_coordinates_from_name
\* called by get_weather_at_location
HelperLogged ==
    /\ TOOL_CALL_LOG # << >>
    /\ \/ TOOL_CALL_LOG[Len(TOOL_CALL_LOG)].tool = "get_launchpad_details_from_spacex_api"
       \/ /\ TOOL_CALL_LOG[Len(TOOL_CALL_LOG)].tool = "get_coordinates_from_name"
          /\ (pc = "weather_geocoding" \/ coords_result # None_)

\* the position in the log of the entry of the tool in progress
CallerEntry == IF HelperLogged THEN Len(TOOL_CALL_LOG) - 1 ELSE Len(TOOL_CALL_LOG)

\* the tool the agent has called and that has not yet returned to it
ToolInProgress == IF pc = "idle" THEN "none" ELSE TOOL_CALL_LOG[CallerEntry].tool

\* the arguments of the call in progress
ArgsInProgress == TOOL_CALL_LOG[CallerEntry].arg

\* get_weather_at_location is in progress and was handed both coordinates
WeatherWithBothCoordinates ==
    /\ ToolInProgress = "get_weather_at_location"
    /\ ArgsInProgress.lat # None_
    /\ ArgsInProgress.lon # None_

\* the agent holds a launch whose location_info has both coordinates
LaunchWithCoordinatesHeld ==
    /\ result.status = "success"
    /\ "location_info" \in DOMAIN result.data
    /\ result.data.location_info.latitude # None_
    /\ result.data.location_info.longitude # None_

C21_Witness_WeatherOfLaunchReported ==
    /\ TOOL_CALL_LOG = << LogEntry("get_spacex_launch", None_),
                          LogEntry("get_weather_at_location",
                                   [lat |-> IntVal(28), lon |-> IntVal(-80),
                                    loc |-> Lit("Cape Canaveral, Florida")]) >>
    /\ pc = "done"
    /\ result.status = "success"
    /\ "report_text" \in DOMAIN result.data
    /\ requests.geocoding = 0
    /\ requests.weather = 1

\* the request whose outcome is o has failed
Failed(o) == o # None_ /\ o.exc # "none"

\* no entry of the next-N list is one of SpaceX
NoSpaceXEntry(ls) ==
    /\ ls.k = "list"
    /\ \A i \in 1..Len(ls.items) : IsSpaceXEntry(ls.items[i]) = Ret(Bool(FALSE))

\* C22: no request is issued twice in one invocation: get_spacex_launch
\* requests the next-N endpoint exactly once, the past endpoint at most once
\* and only when the next-N list has no SpaceX entry, the launchpad endpoint
\* at most once; get_weather_at_location requests the geocoding and weather
\* endpoints at most once each; and a request that fails is followed by no
\* second attempt but by the error form handed to the function's caller
C22_NoRequestReissued ==
    /\ \A endpoint \in DOMAIN requests : requests[endpoint] <= 1
    /\ ToolInProgress = "get_spacex_launch" =>
           /\ requests.next = (IF pc = "fetch_next" THEN 0 ELSE 1)
           /\ requests.geocoding = 0
           /\ requests.weather = 0
    /\ ToolInProgress # "get_spacex_launch" =>
           (requests.next = 0 /\ requests.past = 0 /\ requests.launchpad = 0)
    /\ ToolInProgress \notin {"get_weather_at_location", "get_coordinates_from_name"} =>
           (requests.geocoding = 0 /\ requests.weather = 0)
    /\ ToolInProgress = "get_coordinates_from_name" => requests.weather = 0
    /\ requests.past = 1 =>
           (requests.next = 1 /\ ~found_spacex_in_next_5 /\ NoSpaceXEntry(launches))
    /\ Failed(response) =>
           /\ pc = "done"
           /\ result.status = "error"
           /\ requests.past = 0
           /\ requests.launchpad = 0
    /\ Failed(response_past) =>
           /\ pc = "done"
           /\ result.status = "error"
           /\ requests.launchpad = 0
    /\ Failed(response_launchpad) =>
           get_launchpad_details_from_spacex_api(response_launchpad).status = "error"
    /\ (Failed(response_geocoding) /\ ToolInProgress = "get_coordinates_from_name") =>
           (pc = "done" /\ result.status = "error")
    /\ (Failed(response_geocoding) /\ ToolInProgress = "get_weather_at_location") =>
           /\ coords_result.status = "error"
           /\ requests.weather = 0
           /\ pc \in {"weather_coordinates_returned", "done"}
           /\ pc = "done" => result.status = "error"
    /\ Failed(response_weather) => (pc = "done" /\ result.status = "error")

C22_Witness_FallbackAndLookupOnce ==
    /\ pc = "done"
    /\ ToolInProgress = "get_spacex_launch"
    /\ requests.next = 1
    /\ requests.past = 1
    /\ requests.launchpad = 1
    /\ result.status = "success"

C22_Witness_NextRequestFailed ==
    /\ pc = "done"
    /\ ToolInProgress = "get_spacex_launch"
    /\ Failed(response)
    /\ requests.next = 1
    /\ result.status = "error"

C22_Witness_GeocodingFailedInWeather ==
    /\ pc = "done"
    /\ ToolInProgress = "get_weather_at_location"
    /\ Failed(response_geocoding)
    /\ requests.geocoding = 1
    /\ requests.weather = 0
    /\ result.status = "error"

\* the tools the agent calls
AgentTools ==
    { "get_spacex_launch", "get_coordinates_from_name", "get_weather_at_location",
      "summarize_delay_potential" }

\* the entry the call that begins in this step is logged with, from the
\* arguments it was handed
EntryOfCallBegun ==
    IF current_time_utc' # None_ THEN LogEntry("get_spacex_launch", None_)
    ELSE IF launch_info' # None_ THEN LogEntry("summarize_delay_potential", None_)
    ELSE IF TOOL_CALL_LOG'[Len(TOOL_CALL_LOG')].tool = "get_coordinates_from_name"
    THEN LogEntry("get_coordinates_from_name", location_name')
    ELSE LogEntry("get_weather_at_location",
                  [lat |-> latitude', lon |-> longitude', loc |-> location_name'])

\* the agent calls a tool: one entry is appended, and no request has been
\* issued when the step ends, also when the call has already returned
ToolCallLogged ==
    /\ pc = "idle"
    /\ pc' # "idle"
    /\ Len(TOOL_CALL_LOG') = Len(TOOL_CALL_LOG) + 1
    /\ TOOL_CALL_LOG' = Append(TOOL_CALL_LOG, EntryOfCallBegun)
    /\ EntryOfCallBegun.tool \in AgentTools
    /\ requests' = requests

\* the tool in progress calls its helper: the helper's entry is appended
\* behind that of the tool
HelperCallLogged ==
    \/ /\ pc = "launchpad"
       /\ TOOL_CALL_LOG[Len(TOOL_CALL_LOG)] = LogEntry("get_spacex_launch", None_)
       /\ TOOL_CALL_LOG' = Append(TOOL_CALL_LOG,
                                  LogEntry("get_launchpad_details_from_spacex_api",
                                           Field(launch_data, "launchpad")))
    \/ /\ pc = "weather_call_coordinates"
       /\ TOOL_CALL_LOG[Len(TOOL_CALL_LOG)] =
              LogEntry("get_weather_at_location",
                       [lat |-> latitude, lon |-> longitude, loc |-> location_name])
       /\ TOOL_CALL_LOG' = Append(TOOL_CALL_LOG,
                                  LogEntry("get_coordinates_from_name", location_name))

\* a step inside a tool that begins no call, and the return to the agent
LogKept ==
    /\ pc \notin {"idle", "launchpad", "weather_call_coordinates"}
    /\ TOOL_CALL_LOG' = TOOL_CALL_LOG

\* clear_tool_log between two calls of the agent: get_tool_log returns the
\* empty log afterwards
LogCleared ==
    /\ pc = "idle"
    /\ pc' = "idle"
    /\ get_tool_log' = << >>

C30_Witness_ClearedAfterCalls ==
    /\ pc = "idle"
    /\ result.status = "success"
    /\ get_tool_log = << >>

====
